---- MODULE Spec2Model ----
(***************************************************************************)
(* A model of the workflows of this repository.                            *)
(*                                                                         *)
(* DynamicWorkflow (src/src/workflows/dynamic_workflow.py) interprets a    *)
(* configuration document: a legacy flat list of activities, or a tree of  *)
(* blocks (activity / sequential / parallel).  Its coroutines run on one   *)
(* cooperative event loop: a coroutine runs without interruption until it  *)
(* awaits the result of workflow.execute_activity or of asyncio.gather.    *)
(*                                                                         *)
(* A Python str is modelled as a sequence of tokens (TLA+ strings); the    *)
(* text "Result: " is one token, so that formatting a result record and    *)
(* splitting it again are computed as the code computes them.  A mapping   *)
(* (dict) is a function whose domain is the set of keys that are present.  *)
(* A block is identified by its path: the sequence of child indexes that   *)
(* leads to it from the root execution block.  A mapping that a YAML alias  *)
(* puts at several paths is one object: what is written to it at one path  *)
(* is read at the others.                                                  *)
(*                                                                         *)
(* SampleWorkflow (src/src/workflows/sample_workflow.py) is a fixed        *)
(* sequence: policy check, approval request, wait for a human decision,    *)
(* agent task, cleanup.  The substrate runs each activity in attempts and  *)
(* retries it as the retry policy of its dispatch allows; signals reach    *)
(* the workflow at any time while it runs.  An optional value (None or a   *)
(* value) is the empty sequence or a sequence of one element.              *)
(***************************************************************************)
EXTENDS Naturals, Sequences, FiniteSets, TLC

VARIABLES
    raw_config,   \* the argument of DynamicWorkflow.run: [valid, doc, same], the text
                  \* of doc, in which the paths of each set of same are one mapping
    config,       \* the parsed document: the mappings the interpreter walks (and writes to)
    run_state,    \* "new" | "running" | "returned" | "failed": DynamicWorkflow.run
    output,       \* the string run returned (meaningful when run_state = "returned")
    frames,       \* path -> the coroutine frame of the block at that path
    ready,        \* the event loop's queue of coroutines to start or resume (paths)
    calls,        \* the calls of workflow.execute_activity made so far, in order
    completions,  \* the paths of the dispatches that have completed, in order
    task_description,  \* the argument of SampleWorkflow.run, a str (its characters)
    human_approved,    \* SampleWorkflow._human_approved: None, True or False
    rejection_reason,  \* SampleWorkflow._rejection_reason: None or a str
    sample_pc,         \* where SampleWorkflow.run is: "new", the activity or wait it
                       \* awaits ("policy", "request", "wait", "agent", "cleanup"),
                       \* "returned" or "failed"
    execution_result,  \* the local execution_result of SampleWorkflow.run: None or a str
    sample_result,     \* the string SampleWorkflow.run returned
    attempts,          \* the activity attempts started so far, in order: [name, attempt]
    wait_ended,        \* how the approval wait ended: "no" (it has not), "timeout",
                       \* or the value of _human_approved that ended it ("True", "False")
    signals,           \* the number of calls of human_approval_signal so far
    last_signal,       \* the arguments of the last of them: None or [approved, reason]
    policy_args,       \* the argument of a direct call of check_policy: a list of str
    policy_outcome     \* what that call returned or raised: None until it has ended

dynamic_vars == <<raw_config, config, run_state, output, frames, ready, calls, completions>>

sample_vars ==
    <<task_description, human_approved, rejection_reason, sample_pc, execution_result,
      sample_result, attempts, wait_ended, signals, last_signal>>

activity_vars == <<policy_args, policy_outcome>>

vars == <<dynamic_vars, sample_vars, activity_vars>>

----------------------------------------------------------------------------
(* Bounds of the model.                                                    *)

\* The largest number of children of a generated sequential or legacy list.
MaxBlocks == 3

\* The largest number of children of a generated parallel block.
MaxParallel == 3

\* The largest number of human_approval_signal calls in one run.
MaxSignals == 3

\* The largest number of attempts followed for an activity dispatched without
\* a retry policy (the substrate retries it without limit).
MaxAttempts == 3

\* The largest number of elements of the list given to a direct call of an
\* activity.
MaxArgs == 3

----------------------------------------------------------------------------
(* Strings and mappings.                                                   *)

\* str(x) for a one-token text.
Str(t) == <<t>>

\* dict.get(key, default)
Get(d, key, default) == IF key \in DOMAIN d THEN d[key] ELSE default

\* The mapping {}.
EmptyMap == <<>>

\* "sep".join(list)
RECURSIVE Join(_, _)
Join(sep, list) ==
    IF list = <<>> THEN <<>>
    ELSE IF Len(list) = 1 THEN list[1]
    ELSE list[1] \o sep \o Join(sep, Tail(list))

\* The token the code splits a record at.
ResultLabel == "Result: "

\* "Result: " in s
Contains(s, tok) == \E k \in 1..Len(s) : s[k] = tok

\* s.split("Result: ", 1)[-1], for an s that contains "Result: ": what follows
\* the first occurrence.
SplitOnceLast(s, tok) ==
    LET first == CHOOSE k \in 1..Len(s) : s[k] = tok /\ \A j \in 1..(k - 1) : s[j] # tok
    IN  SubSeq(s, first + 1, Len(s))

\* list[-1]
Last(list) == list[Len(list)]

\* list[:-1]
Front(list) == SubSeq(list, 1, Len(list) - 1)

----------------------------------------------------------------------------
(* The interpreter: DynamicWorkflow.  Its operators take and return the    *)
(* machine m = [config, frames, ready, calls, run_state, output]: what one *)
(* uninterrupted stretch of a coroutine reads and writes.                  *)

\* start_to_close_timeout of a legacy step's dispatch, in seconds.
LegacyTimeout == 30

\* start_to_close_timeout of an activity block's dispatch, in seconds.
ActivityTimeout == 30

\* f"Activity {activity_name} Result: {result}"
ActivityRecord(activity_name, result) ==
    <<"Activity ">> \o activity_name \o <<" ", ResultLabel>> \o result

\* f"Warning: Unknown block type {block_type}"
WarningRecord(block_type) == <<"Warning: Unknown block type ">> \o block_type

\* UsesLegacy with the execution block taking priority over the legacy list.
UsesLegacyUnlessExecution(cfg) == "activities" \in DOMAIN cfg /\ "execution" \notin DOMAIN cfg

\* "activities" in config
UsesLegacy(cfg) == "activities" \in DOMAIN cfg

\* config.get("execution", {})
RootBlock(cfg) == Get(cfg, "execution", EmptyMap)

\* The block (a mapping) at path p below block b.
RECURSIVE BlockAt(_, _)
BlockAt(b, p) ==
    IF p = <<>> THEN b ELSE BlockAt(Get(b, "blocks", <<>>)[Head(p)], Tail(p))

\* BlockType with a block that has an activity name and no type read as an activity.
BlockTypeByName(block) ==
    IF "type" \in DOMAIN block THEN block["type"]
    ELSE IF "activityName" \in DOMAIN block THEN Str("activity")
    ELSE Str("sequential")

\* BlockType with "activity" as the default type.
BlockTypeDefaultActivity(block) == Get(block, "type", Str("activity"))

\* block.get("type", "sequential")
BlockType(block) == Get(block, "type", Str("sequential"))

\* sub_block.get("type") == "activity"
IsActivityTyped(sub_block) == "type" \in DOMAIN sub_block /\ sub_block["type"] = Str("activity")

\* DataFlowApplies with the useDataFlow flag of the receiving block not read.
DataFlowAppliesIgnoringFlag(sub_block, accumulated_data) ==
    /\ "type" \in DOMAIN sub_block /\ sub_block["type"] = Str("activity")
    /\ accumulated_data # <<>>

\* The condition under which the sequential loop rewrites sub_block["args"].
DataFlowApplies(sub_block, accumulated_data) ==
    /\ IsActivityTyped(sub_block)
    /\ Get(sub_block, "useDataFlow", TRUE)
    /\ accumulated_data # <<>>

\* [accumulated_data[-1]] + current_args
FlowArgs(accumulated_data, current_args) == <<Last(accumulated_data)>> \o current_args

\* The value the sequential loop keeps of a child's last record.
ActualResult(record) ==
    IF Contains(record, ResultLabel) THEN SplitOnceLast(record, ResultLabel) ELSE record

\* Whether the sequential loop appends to accumulated_data after a child.
FeedsForward(sub_block, sub_results) == sub_results # <<>> /\ IsActivityTyped(sub_block)

\* sub_block["args"] = args, for the block at path p below block b.
RECURSIVE WithArgs(_, _, _)
WithArgs(b, p, args) ==
    IF p = <<>>
    THEN [k \in DOMAIN b \cup {"args"} |-> IF k = "args" THEN args ELSE b[k]]
    ELSE [b EXCEPT !["blocks"] = [@ EXCEPT ![Head(p)] = WithArgs(@, Tail(p), args)]]

\* The paths at which the mapping at path p occurs: p, and the paths at which
\* a YAML alias puts the same mapping (yaml.safe_load builds one dict for an
\* anchor and all its aliases).
SameMapping(same, p) == {p} \cup UNION {c \in same : p \in c}

\* sub_block["args"] = args, seen at every path the mapping occurs at.
RECURSIVE WithArgsAll(_, _, _)
WithArgsAll(b, ps, args) ==
    IF ps = {} THEN b
    ELSE LET p == CHOOSE p \in ps : TRUE
         IN  WithArgsAll(WithArgs(b, p, args), ps \ {p}, args)

\* A coroutine frame.  st: "await" (an activity awaiting its dispatch),
\* "resolved" / "rejected" (the dispatch returned / failed, the coroutine is
\* queued to resume), "loop" (a sequential or legacy loop inside child i),
\* "gather" (a parallel block awaiting asyncio.gather), "gdone" / "gfail"
\* (gather has its results / its first exception, the coroutine is queued),
\* "done" (returned results), "failed" (raised).
NewFrame(kind, st) ==
    [kind |-> kind, st |-> st, i |-> 0, results |-> <<>>, acc |-> <<>>,
     name |-> <<>>, val |-> <<>>]

SetFrame(m, p, f) == [m EXCEPT !.frames = (p :> f) @@ m.frames]

\* Dispatch made without start_to_close_timeout.
DispatchWithoutTimeout(m, p, activity_name, activity_args, timeout) ==
    [SetFrame(m, p, [NewFrame("activity", "await") EXCEPT !.name = activity_name])
        EXCEPT !.calls = Append(@, [path |-> p, name |-> activity_name,
                                    args |-> activity_args, timeout |-> 0])]

\* await workflow.execute_activity(name, args, start_to_close_timeout=...): the
\* call is made and the coroutine is suspended until the dispatch completes.
Dispatch(m, p, activity_name, activity_args, timeout) ==
    [SetFrame(m, p, [NewFrame("activity", "await") EXCEPT !.name = activity_name])
        EXCEPT !.calls = Append(@, [path |-> p, name |-> activity_name,
                                    args |-> activity_args, timeout |-> timeout])]

\* AllDone never true: gather never hands its results to the awaiting block.
AllDoneNever(m, q) == FALSE

\* The tasks of a parallel block have all returned.
AllDone(m, q) ==
    \A k \in 1..Len(Get(BlockAt(RootBlock(m.config), q), "blocks", <<>>)) :
        /\ Append(q, k) \in DOMAIN m.frames
        /\ m.frames[Append(q, k)].st = "done"

\* GatherResults with the lists taken in the order in which the tasks ended
\* (the last completion below each child) instead of the order of the tasks.
RECURSIVE ConcatResults(_, _, _, _)
ConcatResults(m, q, order, n) ==
    IF n > Len(order) THEN <<>>
    ELSE m.frames[Append(q, order[n])].results \o ConcatResults(m, q, order, n + 1)
GatherResultsByArrival(m, q, k) ==
    LET count == Len(Get(BlockAt(Get(m.config, "execution", <<>>), q), "blocks", <<>>))
        Under(c, r) == Len(r) > Len(q) /\ SubSeq(r, 1, Len(q) + 1) = Append(q, c)
        Ended(c) == LET at == {n \in DOMAIN completions : Under(c, completions[n])}
                    IN  IF at = {} THEN 0 ELSE CHOOSE n \in at : \A o \in at : o <= n
        Earlier(a, b) == Ended(a) < Ended(b) \/ (Ended(a) = Ended(b) /\ a < b)
        order == CHOOSE o \in [1..count -> 1..count] :
                     \A a \in 1..count : \A b \in 1..count : a < b => Earlier(o[a], o[b])
    IN  ConcatResults(m, q, order, k)

\* results_lists flattened in the order of the tasks.
RECURSIVE GatherResults(_, _, _)
GatherResults(m, q, k) ==
    IF k > Len(Get(BlockAt(RootBlock(m.config), q), "blocks", <<>>)) THEN <<>>
    ELSE m.frames[Append(q, k)].results \o GatherResults(m, q, k + 1)

RECURSIVE ExecuteBlock(_, _)
RECURSIVE SequentialLoop(_, _)
RECURSIVE LegacyLoop(_)
RECURSIVE Return(_, _, _)
RECURSIVE Raise(_, _)

\* Raise with asyncio.gather collecting exceptions (return_exceptions=True): a
\* task that raised counts as ended, and gather ends when every task has.
RaiseCollectedByGather(m, p) ==
    LET m1 == SetFrame(m, p, [(IF p \in DOMAIN m.frames THEN m.frames[p]
                                ELSE NewFrame("activity", "failed"))
                               EXCEPT !.st = "failed"])
    IN  IF p = <<>> THEN [m1 EXCEPT !.run_state = "failed"]
        ELSE LET q == Front(p) IN
             IF m1.frames[q].kind = "parallel"
             THEN IF /\ m1.frames[q].st = "gather"
                     /\ \A k \in 1..Len(Get(BlockAt(RootBlock(m1.config), q), "blocks", <<>>)) :
                            /\ Append(q, k) \in DOMAIN m1.frames
                            /\ m1.frames[Append(q, k)].st \in {"done", "failed"}
                  THEN [m1 EXCEPT !.frames[q].st = "gdone", !.ready = Append(@, q)]
                  ELSE m1
             ELSE Raise(m1, q)

\* Raise with the sequential and legacy loops catching what a step raises and
\* going on to the next step.
RaiseCaughtByLoop(m, p) ==
    LET m1 == SetFrame(m, p, [(IF p \in DOMAIN m.frames THEN m.frames[p]
                                ELSE NewFrame("activity", "failed"))
                               EXCEPT !.st = "failed"])
    IN  IF p = <<>> THEN [m1 EXCEPT !.run_state = "failed"]
        ELSE LET q == Front(p) IN
             IF m1.frames[q].kind = "parallel"
             THEN IF m1.frames[q].st = "gather"
                  THEN [m1 EXCEPT !.frames[q].st = "gfail", !.ready = Append(@, q)]
                  ELSE m1
             ELSE IF m1.frames[q].kind = "legacy"
             THEN LegacyLoop([m1 EXCEPT !.frames[q].i = @ + 1])
             ELSE SequentialLoop([m1 EXCEPT !.frames[q].i = @ + 1], q)

\* The coroutine of the block at p raises: the exception travels up its callers.
Raise(m, p) ==
    LET m1 == SetFrame(m, p, [(IF p \in DOMAIN m.frames THEN m.frames[p]
                                ELSE NewFrame("activity", "failed"))
                               EXCEPT !.st = "failed"])
    IN  IF p = <<>> THEN [m1 EXCEPT !.run_state = "failed"]
        ELSE LET q == Front(p) IN
             IF m1.frames[q].kind = "parallel"
             THEN \* p is a task: gather passes the first exception to its awaiter
                  IF m1.frames[q].st = "gather"
                  THEN [m1 EXCEPT !.frames[q].st = "gfail", !.ready = Append(@, q)]
                  ELSE m1
             ELSE Raise(m1, q)

\* Return with the sequential loop keeping only the records of its last child
\* (results = sub_results in place of results.extend(sub_results)).
ReturnKeepingLastChild(m, p, results) ==
    LET m1 == [m EXCEPT !.frames[p].st = "done", !.frames[p].results = results]
    IN  IF p = <<>>
        THEN [m1 EXCEPT !.run_state = "returned", !.output = Join(<<"\n">>, results)]
        ELSE LET q == Front(p)
                 f == m1.frames[q]
             IN  IF f.kind = "parallel"
                 THEN IF f.st = "gather" /\ AllDone(m1, q)
                      THEN [m1 EXCEPT !.frames[q].st = "gdone", !.ready = Append(@, q)]
                      ELSE m1
                 ELSE IF f.kind = "legacy"
                 THEN LegacyLoop([m1 EXCEPT !.frames[q].results = @ \o results,
                                            !.frames[q].i = @ + 1])
                 ELSE LET sub_block == BlockAt(RootBlock(m1.config), p)
                          acc == IF FeedsForward(sub_block, results)
                                 THEN Append(f.acc, ActualResult(Last(results)))
                                 ELSE f.acc
                      IN  SequentialLoop([m1 EXCEPT !.frames[q].results = results,
                                                    !.frames[q].acc = acc,
                                                    !.frames[q].i = @ + 1], q)

\* The coroutine of the block at p returns results to its caller.
Return(m, p, results) ==
    LET m1 == [m EXCEPT !.frames[p].st = "done", !.frames[p].results = results]
    IN  IF p = <<>>
        THEN [m1 EXCEPT !.run_state = "returned", !.output = Join(<<"\n">>, results)]
        ELSE LET q == Front(p)
                 f == m1.frames[q]
             IN  IF f.kind = "parallel"
                 THEN IF f.st = "gather" /\ AllDone(m1, q)
                      THEN [m1 EXCEPT !.frames[q].st = "gdone", !.ready = Append(@, q)]
                      ELSE m1
                 ELSE IF f.kind = "legacy"
                 THEN LegacyLoop([m1 EXCEPT !.frames[q].results = @ \o results,
                                            !.frames[q].i = @ + 1])
                 ELSE LET sub_block == BlockAt(RootBlock(m1.config), p)
                          acc == IF FeedsForward(sub_block, results)
                                 THEN Append(f.acc, ActualResult(Last(results)))
                                 ELSE f.acc
                      IN  SequentialLoop([m1 EXCEPT !.frames[q].results = @ \o results,
                                                    !.frames[q].acc = acc,
                                                    !.frames[q].i = @ + 1], q)

\* LegacyLoop threading each step's result into the next step's args, as the
\* sequential block does.
LegacyLoopWithDataFlow(m) ==
    LET f == m.frames[<<>>]
        activities == m.config["activities"]
    IN  IF f.i > Len(activities) THEN Return(m, <<>>, f.results)
        ELSE LET activity_def == activities[f.i] IN
             IF "activityName" \notin DOMAIN activity_def THEN Raise(m, <<>>)
             ELSE Dispatch(m, <<f.i>>, activity_def["activityName"],
                           (IF f.results = <<>> THEN <<>>
                            ELSE <<ActualResult(Last(f.results))>>)
                               \o Get(activity_def, "args", <<>>),
                           LegacyTimeout)

\* _execute_legacy_activities: the loop, from step frames[<<>>].i on.
LegacyLoop(m) ==
    LET f == m.frames[<<>>]
        activities == m.config["activities"]
    IN  IF f.i > Len(activities) THEN Return(m, <<>>, f.results)
        ELSE LET activity_def == activities[f.i] IN
             IF "activityName" \notin DOMAIN activity_def THEN Raise(m, <<>>)
             ELSE Dispatch(m, <<f.i>>, activity_def["activityName"],
                           Get(activity_def, "args", <<>>), LegacyTimeout)

\* ExecuteActivityBlock reading the name with block.get("activityName").
ExecuteActivityBlockUnnamed(m, p) ==
    LET block == BlockAt(RootBlock(m.config), p) IN
    Dispatch(m, p, Get(block, "activityName", Str("None")), Get(block, "args", <<>>),
             ActivityTimeout)

\* _execute_activity_block
ExecuteActivityBlock(m, p) ==
    LET block == BlockAt(RootBlock(m.config), p) IN
    IF "activityName" \notin DOMAIN block THEN Raise(m, p)
    ELSE Dispatch(m, p, block["activityName"], Get(block, "args", <<>>), ActivityTimeout)

\* _execute_sequential_block: the loop, from child frames[p].i on.
SequentialLoop(m, p) ==
    LET f == m.frames[p]
        blocks == Get(BlockAt(RootBlock(m.config), p), "blocks", <<>>)
    IN  IF f.i > Len(blocks) THEN Return(m, p, f.results)
        ELSE LET sub_block == blocks[f.i]
                 current_args == Get(sub_block, "args", <<>>)
                 m1 == IF DataFlowApplies(sub_block, f.acc)
                       THEN [m EXCEPT !.config["execution"] =
                                 WithArgsAll(@, SameMapping(m.same, Append(p, f.i)),
                                             FlowArgs(f.acc, current_args))]
                       ELSE m
             IN  ExecuteBlock(m1, Append(p, f.i))

\* ExecuteParallelBlock awaiting each child before it starts the next.
ExecuteParallelBlockOneByOne(m, p) ==
    SequentialLoop(SetFrame(m, p, [NewFrame("sequential", "loop") EXCEPT !.i = 1]), p)

\* _execute_parallel_block up to its await: one task per child, then gather.
ExecuteParallelBlock(m, p) ==
    LET blocks == Get(BlockAt(RootBlock(m.config), p), "blocks", <<>>)
        m1 == SetFrame(m, p, NewFrame("parallel", "gather"))
    IN  IF blocks = <<>> THEN Return(m1, p, <<>>)
        ELSE [m1 EXCEPT !.ready = @ \o [k \in 1..Len(blocks) |-> Append(p, k)]]

\* ExecuteBlock starting the children of a sequential block as tasks, as it
\* does those of a parallel block.
ExecuteBlockAllAtOnce(m, p) ==
    LET block == BlockAt(RootBlock(m.config), p)
        block_type == BlockType(block)
    IN  IF block_type = Str("activity") THEN ExecuteActivityBlock(m, p)
        ELSE IF block_type \in {Str("sequential"), Str("parallel")}
        THEN ExecuteParallelBlock(m, p)
        ELSE Return(SetFrame(m, p, NewFrame("unknown", "loop")), p,
                    <<WarningRecord(block_type)>>)

\* ExecuteBlock raising on a block type it does not know.
ExecuteBlockRejectingUnknown(m, p) ==
    LET block == BlockAt(RootBlock(m.config), p)
        block_type == BlockType(block)
    IN  IF block_type = Str("activity") THEN ExecuteActivityBlock(m, p)
        ELSE IF block_type = Str("sequential")
        THEN SequentialLoop(SetFrame(m, p, [NewFrame("sequential", "loop") EXCEPT !.i = 1]), p)
        ELSE IF block_type = Str("parallel") THEN ExecuteParallelBlock(m, p)
        ELSE Raise(SetFrame(m, p, NewFrame("unknown", "loop")), p)

\* _execute_block
ExecuteBlock(m, p) ==
    LET block == BlockAt(RootBlock(m.config), p)
        block_type == BlockType(block)
    IN  IF block_type = Str("activity") THEN ExecuteActivityBlock(m, p)
        ELSE IF block_type = Str("sequential")
        THEN SequentialLoop(SetFrame(m, p, [NewFrame("sequential", "loop") EXCEPT !.i = 1]), p)
        ELSE IF block_type = Str("parallel") THEN ExecuteParallelBlock(m, p)
        ELSE Return(SetFrame(m, p, NewFrame("unknown", "loop")), p,
                    <<WarningRecord(block_type)>>)

\* Resume dispatching the task of a failed dispatch once more before giving up.
ResumeRetryingOnce(m, p) ==
    IF p \notin DOMAIN m.frames THEN ExecuteBlock(m, p)
    ELSE LET f == m.frames[p]
             made == {n \in DOMAIN m.calls : m.calls[n].path = p}
         IN  IF f.st = "resolved" THEN Return(m, p, <<ActivityRecord(f.name, f.val)>>)
             ELSE IF f.st = "gdone" THEN Return(m, p, GatherResults(m, p, 1))
             ELSE IF f.st = "rejected" /\ Cardinality(made) = 1
             THEN LET c == m.calls[CHOOSE n \in made : TRUE]
                  IN  Dispatch(m, p, c.name, c.args, c.timeout)
             ELSE Raise(m, p)

\* A queued coroutine runs: a task starts, or a suspended coroutine resumes.
Resume(m, p) ==
    IF p \notin DOMAIN m.frames THEN ExecuteBlock(m, p)
    ELSE LET f == m.frames[p] IN
         IF f.st = "resolved" THEN Return(m, p, <<ActivityRecord(f.name, f.val)>>)
         ELSE IF f.st = "gdone" THEN Return(m, p, GatherResults(m, p, 1))
         ELSE Raise(m, p)

----------------------------------------------------------------------------
(* The documents the model runs.                                           *)

\* The results a dispatch may return.
ResultValues == {<<"data_extracted">>, <<"ok ", ResultLabel, "7">>}

Activity(name) == [type |-> Str("activity"), activityName |-> name]

\* mapping | {key: value}
With(d, key, value) == [k \in DOMAIN d \cup {key} |-> IF k = key THEN value ELSE d[k]]

Composite(type, blocks) == [type |-> Str(type), blocks |-> blocks]

\* The children a generated sequential block is built from.
PlainLeaves ==
    { With(Activity(Str("Extract")), "args", <<Str("src")>>),
      Activity(Str("Transform")),
      With(With(Activity(Str("Load")), "args", <<Str("dst"), Str("mode")>>),
           "useDataFlow", FALSE) }

OddLeaves ==
    { \* a name that holds "Result: "
      With(With(Activity(<<"Get", ResultLabel, "X">>), "args", <<Str("opt")>>),
           "useDataFlow", TRUE),
      \* no activityName
      [type |-> Str("activity"), args |-> <<Str("src")>>],
      \* an unknown type
      [type |-> Str("loop")],
      \* an activityName and no type
      [activityName |-> Str("Extract"), args |-> <<Str("src")>>] }

SeqLeaves == PlainLeaves \cup OddLeaves

\* The names of the activity children of a generated parallel block, by position.
ParallelNames == <<"X", "Y", "Z", "W", "V">>

\* What child k of a generated parallel block may be: an activity block (its
\* args and useDataFlow vary with k), an activity block with no name, or a
\* block of unknown type.
ParallelChoices(k) ==
    { IF k % 3 = 1 THEN With(Activity(Str(ParallelNames[k])), "args", <<Str("src")>>)
      ELSE IF k % 3 = 2 THEN With(Activity(Str(ParallelNames[k])), "useDataFlow", TRUE)
      ELSE With(With(Activity(Str(ParallelNames[k])), "args", <<Str("dst"), Str("mode")>>),
                "useDataFlow", FALSE),
      [type |-> Str("activity"), args |-> <<Str("src")>>],
      [type |-> Str("loop")] }

\* The lists of k children of a generated parallel block.
RECURSIVE ParallelLists(_)
ParallelLists(k) ==
    IF k = 0 THEN {<<>>}
    ELSE {Append(l, c) : l \in ParallelLists(k - 1), c \in ParallelChoices(k)}

\* The entries a generated legacy list is built from.
LegacyItems ==
    { [activityName |-> Str("CheckPolicy"), args |-> <<Str("test task")>>],
      [activityName |-> Str("ExecuteAgentTask"), args |-> <<Str("task1"), Str("task2")>>],
      [activityName |-> Str("CleanupTask")],
      [args |-> <<Str("test task")>>] }

\* The sequences over S of length 0..n.
SeqsUpTo(S, n) == UNION {[1..k -> S] : k \in 0..n}

FlatSequential == {Composite("sequential", bs) : bs \in SeqsUpTo(SeqLeaves, MaxBlocks)}

FlatParallel ==
    {Composite("parallel", bs) : bs \in UNION {ParallelLists(k) : k \in 0..MaxParallel}}

\* The leaves of the generated nested blocks.
InnerLeaves ==
    { With(Activity(Str("Extract")), "args", <<Str("src")>>),
      Activity(Str("Transform")) }

Loop == [type |-> Str("loop")]

\* Composite blocks inside composite blocks.
NestedBlocks ==
    UNION { { Composite("sequential", <<a, Composite("parallel", <<b, a>>), b>>),
              Composite("sequential", <<a, Composite("sequential", <<b, Loop>>), a>>),
              Composite("sequential", <<a, [blocks |-> <<b, a>>], b>>),
              Composite("sequential", <<Composite("parallel", <<a, Loop, b>>), a>>),
              Composite("parallel", <<Composite("sequential", <<a, b>>), a>>),
              Composite("parallel", <<Composite("parallel", <<a, b>>), b>>),
              Composite("parallel", <<Composite("sequential", <<a, b>>),
                                      Composite("sequential", <<b, a>>)>>) }
            : a \in InnerLeaves, b \in InnerLeaves }

ExecutionBlocks ==
    FlatSequential \cup FlatParallel \cup NestedBlocks \cup SeqLeaves
        \cup {EmptyMap, [blocks |-> <<>>]}

\* An execution block whose activity appears in no legacy list.
OnlyInExecution ==
    Composite("sequential", <<With(Activity(Str("OnlyInExecution")), "args", <<Str("x")>>)>>)

LegacyDocuments ==
    LET lists == SeqsUpTo(LegacyItems, MaxBlocks) IN
    {[activities |-> l] : l \in lists}
        \cup {[activities |-> l, execution |-> OnlyInExecution] : l \in lists}

Documents ==
    LegacyDocuments
        \cup {[execution |-> b] : b \in ExecutionBlocks}
        \cup {[other_config |-> Str("value")]}

\* Texts in which a YAML alias (&t ... *t) makes one mapping occur twice:
\* doc is the tree the text denotes, same the sets of paths that hold one
\* mapping.
AliasDocuments ==
    LET t == With(Activity(Str("Transform")), "args", <<Str("opt")>>)
        a == Activity(Str("Extract"))
    IN  { [valid |-> TRUE, same |-> {{<<2>>, <<3>>}},
           doc |-> [execution |-> Composite("sequential", <<a, t, t>>)]],
          [valid |-> TRUE, same |-> {{<<2>>, <<3, 1>>}},
           doc |-> [execution |-> Composite("sequential",
                                     <<a, t, Composite("parallel", <<t, a>>)>>)]],
          [valid |-> TRUE, same |-> {{<<1, 2>>, <<2>>}},
           doc |-> [execution |-> Composite("sequential",
                                     <<Composite("sequential", <<a, t>>), t>>)]],
          [valid |-> TRUE, same |-> {{<<1, 2>>, <<2, 2>>}},
           doc |-> [execution |-> Composite("parallel",
                                     <<Composite("sequential", <<a, t>>),
                                       Composite("sequential", <<a, t>>)>>)]] }

----------------------------------------------------------------------------
(* The state machine.                                                      *)

\* None, and a value that is not None.
None == <<>>
Some(x) == <<x>>

\* No SampleWorkflow is running.
SampleIdle ==
    /\ task_description = <<>>
    /\ human_approved = None
    /\ rejection_reason = None
    /\ sample_pc = "idle"
    /\ execution_result = None
    /\ sample_result = <<>>
    /\ attempts = <<>>
    /\ wait_ended = "no"
    /\ signals = 0
    /\ last_signal = None

\* No activity is being called directly.
ActivityIdle ==
    /\ policy_args = <<>>
    /\ policy_outcome = None

Init ==
    /\ ActivityIdle
    /\ raw_config \in {[valid |-> TRUE, doc |-> d, same |-> {}] : d \in Documents}
                          \cup AliasDocuments
                          \cup {[valid |-> FALSE, doc |-> EmptyMap, same |-> {}]}
    /\ config = EmptyMap
    /\ run_state = "new"
    /\ output = <<>>
    /\ frames = <<>>
    /\ ready = <<>>
    /\ calls = <<>>
    /\ completions = <<>>
    /\ SampleIdle

Machine ==
    [config |-> config, frames |-> frames, ready |-> ready, calls |-> calls,
     run_state |-> run_state, output |-> output, same |-> raw_config.same]

Becomes(m) ==
    /\ config' = m.config
    /\ frames' = m.frames
    /\ ready' = m.ready
    /\ calls' = m.calls
    /\ run_state' = m.run_state
    /\ output' = m.output

\* RunFrom taking a text that cannot be parsed for an empty document.
RunFromReadingNothing(m, raw) ==
    LET m1 == [m EXCEPT !.config = raw.doc, !.run_state = "running"] IN
    IF UsesLegacy(m1.config)
    THEN LegacyLoop(SetFrame(m1, <<>>, [NewFrame("legacy", "loop") EXCEPT !.i = 1]))
    ELSE ExecuteBlock(m1, <<>>)

\* DynamicWorkflow.run up to its first await (or to its end).
RunFrom(m, raw) ==
    IF ~raw.valid THEN [m EXCEPT !.run_state = "failed"]    \* yaml.safe_load raises
    ELSE LET m1 == [m EXCEPT !.config = raw.doc, !.run_state = "running"] IN
         IF UsesLegacy(m1.config)
         THEN LegacyLoop(SetFrame(m1, <<>>, [NewFrame("legacy", "loop") EXCEPT !.i = 1]))
         ELSE ExecuteBlock(m1, <<>>)

Run ==
    /\ run_state = "new"
    /\ Becomes(RunFrom(Machine, raw_config))
    /\ UNCHANGED <<raw_config, completions>>
    /\ UNCHANGED <<sample_vars, activity_vars>>

\* The event loop runs the coroutine at the head of its queue until that
\* coroutine awaits again, returns or raises.
Step ==
    /\ ready # <<>>
    /\ Becomes(Resume([Machine EXCEPT !.ready = Tail(ready)], Head(ready)))
    /\ UNCHANGED <<raw_config, completions>>
    /\ UNCHANGED <<sample_vars, activity_vars>>

\* The dispatcher returns result for the dispatch made at p.
Complete(p, result) ==
    /\ p \in DOMAIN frames
    /\ frames[p].st = "await"
    /\ frames' = [frames EXCEPT ![p].st = "resolved", ![p].val = result]
    /\ ready' = Append(ready, p)
    /\ completions' = Append(completions, p)
    /\ UNCHANGED <<raw_config, config, run_state, output, calls>>
    /\ UNCHANGED <<sample_vars, activity_vars>>

\* The dispatch made at p fails (a task failure, a timeout).
Fail(p) ==
    /\ p \in DOMAIN frames
    /\ frames[p].st = "await"
    /\ frames' = [frames EXCEPT ![p].st = "rejected"]
    /\ ready' = Append(ready, p)
    /\ completions' = Append(completions, p)
    /\ UNCHANGED <<raw_config, config, run_state, output, calls>>
    /\ UNCHANGED <<sample_vars, activity_vars>>

Next ==
    \/ Run
    \/ Step
    \/ \E p \in DOMAIN frames : \E result \in ResultValues : Complete(p, result)
    \/ \E p \in DOMAIN frames : Fail(p)

Spec == Init /\ [][Next]_vars

\* The dispatcher ends a pending dispatch: the task returns or fails.
TaskEnds ==
    \E p \in DOMAIN frames : (\E result \in ResultValues : Complete(p, result)) \/ Fail(p)

\* run is called: weak fairness of Run, which is enabled exactly when
\* run_state = "new".
RunIsCalled == []<>(run_state # "new") \/ []<><<Run>>_vars

\* The event loop runs its queued coroutines: weak fairness of Step, which is
\* enabled exactly when the queue is not empty.
EventLoopRuns == []<>(ready = <<>>) \/ []<><<Step>>_vars

\* Spec with run called, the event loop running its queued coroutines, and
\* every dispatched task eventually returning or failing.
FairSpec == Spec /\ RunIsCalled /\ EventLoopRuns /\ WF_vars(TaskEnds)

----------------------------------------------------------------------------
(* What the properties below read: the document as it was given, the calls *)
(* made and the results returned.                                          *)

\* The document given to run.
Doc == raw_config.doc

\* The execution tree is what run evaluates.
RunsExecution == raw_config.valid /\ "activities" \notin DOMAIN Doc

\* The legacy list is what run evaluates.
RunsLegacy == raw_config.valid /\ "activities" \in DOMAIN Doc

\* The block at path p of the document as given.
Orig(p) == BlockAt(Get(Doc, "execution", EmptyMap), p)

\* The paths of the blocks of the execution tree evaluated so far.
Evaluated == IF RunsExecution THEN DOMAIN frames ELSE {}

Children(p) == Get(Orig(p), "blocks", <<>>)

OwnArgs(p) == Get(Orig(p), "args", <<>>)

HasType(b, t) == "type" \in DOMAIN b /\ b["type"] = Str(t)

NamedActivity(b) == HasType(b, "activity") /\ "activityName" \in DOMAIN b

NamelessActivity(b) == HasType(b, "activity") /\ "activityName" \notin DOMAIN b

UnknownTyped(b) ==
    "type" \in DOMAIN b /\ b["type"] \notin {Str("activity"), Str("sequential"), Str("parallel")}

FlowOn(b) == Get(b, "useDataFlow", TRUE)

HasCall(p) == \E n \in DOMAIN calls : calls[n].path = p

CallOf(p) == calls[CHOOSE n \in DOMAIN calls : calls[n].path = p]

\* The dispatch made at p has returned a result.
Returned(p) == p \in DOMAIN frames /\ frames[p].st \in {"resolved", "done"}

\* The result the dispatcher returned for the dispatch made at p.
ResultOf(p) == frames[p].val

\* p is a prefix of r.
IsPrefix(p, r) == Len(p) <= Len(r) /\ SubSeq(r, 1, Len(p)) = p

\* The records the document promises for the block b at path p, in depth-first
\* left-to-right order: one per activity, one per block of unknown type.
RECURSIVE ExpectedRecords(_, _)
RECURSIVE ExpectedFrom(_, _, _)
ExpectedRecords(b, p) ==
    IF HasType(b, "activity") THEN <<ActivityRecord(b["activityName"], ResultOf(p))>>
    ELSE IF UnknownTyped(b) THEN <<WarningRecord(b["type"])>>
    ELSE ExpectedFrom(Get(b, "blocks", <<>>), p, 1)
ExpectedFrom(bs, p, k) ==
    IF k > Len(bs) THEN <<>>
    ELSE ExpectedRecords(bs[k], Append(p, k)) \o ExpectedFrom(bs, p, k + 1)

\* output.split("\n"), for a non-empty output.
RECURSIVE Lines(_)
Lines(s) ==
    IF ~Contains(s, "\n") THEN <<s>>
    ELSE LET first == CHOOSE k \in 1..Len(s) : s[k] = "\n" /\ \A j \in 1..(k - 1) : s[j] # "\n"
         IN  <<SubSeq(s, 1, first - 1)>> \o Lines(SubSeq(s, first + 1, Len(s)))

----------------------------------------------------------------------------
(* C1 *)

\* A sequential block of exactly three named activity blocks, data flow on.
ChainOfThree(p) ==
    /\ HasType(Orig(p), "sequential")
    /\ Len(Children(p)) = 3
    /\ \A k \in 1..3 : NamedActivity(Children(p)[k]) /\ FlowOn(Children(p)[k])

\* C1: in a sequential block of three activity blocks A, B, C with useDataFlow
\* true, the args B is dispatched with begin with the result the dispatcher
\* returned for A, and the args C is dispatched with begin with the result it
\* returned for B.
C1_ChainReceivesRawResults ==
    \A p \in Evaluated :
        ChainOfThree(p) =>
            \A k \in 2..3 :
                HasCall(Append(p, k)) =>
                    /\ CallOf(Append(p, k)).args # <<>>
                    /\ Head(CallOf(Append(p, k)).args) = ResultOf(Append(p, k - 1))

\* The same, for chains in which no activity name holds the text "Result: ".
ChainReceivesRawResultsPlainNames ==
    \A p \in Evaluated :
        (ChainOfThree(p)
            /\ \A k \in 1..3 : ~Contains(Children(p)[k]["activityName"], ResultLabel)) =>
            \A k \in 2..3 :
                HasCall(Append(p, k)) =>
                    /\ CallOf(Append(p, k)).args =
                           <<ResultOf(Append(p, k - 1))>> \o OwnArgs(Append(p, k))

----------------------------------------------------------------------------
(* C2 *)

\* Child k of the sequential block at p, an activity block, has been dispatched.
SequentialStep(p, k) ==
    /\ BlockType(Orig(p)) = Str("sequential")
    /\ k \in 1..Len(Children(p))
    /\ NamedActivity(Children(p)[k])
    /\ HasCall(Append(p, k))

----------------------------------------------------------------------------
(* C3 *)

\* C3: a parallel block whose children all succeeded returns the records of
\* its children in document order, whatever the order in which the children's
\* dispatches completed.
C3_ParallelRecordsInDocumentOrder ==
    \A p \in Evaluated :
        (HasType(Orig(p), "parallel") /\ frames[p].st = "done") =>
            /\ frames[p].results = ExpectedRecords(Orig(p), p)
            /\ (p = <<>> /\ run_state = "returned") =>
                   output = Join(<<"\n">>, ExpectedRecords(Orig(p), p))

\* A run returned the records of a parallel block of three activities whose
\* dispatches completed in the order third, first, second.
C3_Witness ==
    /\ RunsExecution
    /\ run_state = "returned"
    /\ HasType(Orig(<<>>), "parallel")
    /\ Len(Children(<<>>)) = 3
    /\ completions = <<<<3>>, <<1>>, <<2>>>>
    /\ output = Join(<<"\n">>, ExpectedRecords(Orig(<<>>), <<>>))

----------------------------------------------------------------------------
(* C4 *)

\* A child of a parallel block has failed (its dispatch failed, or it raised).
ParallelChildFailed ==
    \E p \in Evaluated :
        /\ Len(p) > 0
        /\ HasType(Orig(Front(p)), "parallel")
        /\ frames[p].st \in {"rejected", "failed"}

\* C4: once a child of a parallel block has failed the run returns no output:
\* it never ends normally, and it has failed as soon as the event loop has run
\* the coroutines the failure woke.
C4_ParallelFailureFailsTheRun ==
    ParallelChildFailed =>
        /\ run_state # "returned"
        /\ output = <<>>
        /\ (ready = <<>> /\ \A p \in Evaluated : frames[p].st # "rejected") =>
               run_state = "failed"

\* The run failed on the second child of a parallel block; the first child had
\* succeeded before that failure and the third succeeded after it.
C4_Witness ==
    /\ RunsExecution
    /\ run_state = "failed"
    /\ HasType(Orig(<<>>), "parallel")
    /\ Len(Children(<<>>)) = 3
    /\ completions = <<<<1>>, <<2>>, <<3>>>>
    /\ frames[<<1>>].st = "done"
    /\ frames[<<2>>].st = "failed"
    /\ frames[<<3>>].st = "done"

----------------------------------------------------------------------------
(* C5 *)

\* The legacy list of the document.
LegacyList == Doc["activities"]

\* C5: for a legacy list of length N the dispatches made are, in order, those
\* of the list, each with exactly the args written in the document; when the
\* run has returned there are N of them and the output has N records.
C5_LegacyDispatchesAsWritten ==
    RunsLegacy =>
        /\ Len(calls) <= Len(LegacyList)
        /\ \A n \in DOMAIN calls :
               /\ calls[n].name = LegacyList[n]["activityName"]
               /\ calls[n].args = Get(LegacyList[n], "args", <<>>)
        /\ run_state = "returned" =>
               /\ Len(calls) = Len(LegacyList)
               /\ Len(frames[<<>>].results) = Len(LegacyList)
               /\ (LegacyList # <<>> => Len(Lines(output)) = Len(LegacyList))

\* A legacy list of three steps has run to its end.
C5_Witness ==
    /\ RunsLegacy
    /\ run_state = "returned"
    /\ Len(LegacyList) = 3
    /\ Len(calls) = 3
    /\ Len(calls[2].args) = 2

----------------------------------------------------------------------------
(* C6 *)

\* A sequential or parallel block (or one with no type) with blocks: [].
EmptyComposite(b) ==
    /\ "blocks" \in DOMAIN b /\ b["blocks"] = <<>>
    /\ ("type" \notin DOMAIN b \/ HasType(b, "sequential") \/ HasType(b, "parallel"))

\* A document with an empty legacy list, with an execution block whose blocks
\* list is empty, or with neither key.
EmptyDocument ==
    /\ raw_config.valid
    /\ \/ ("activities" \in DOMAIN Doc /\ Doc["activities"] = <<>>)
       \/ ("activities" \notin DOMAIN Doc /\ "execution" \in DOMAIN Doc
              /\ EmptyComposite(Doc["execution"]))
       \/ ("activities" \notin DOMAIN Doc /\ "execution" \notin DOMAIN Doc)

\* C6: an empty document dispatches nothing and does not fail; its run returns
\* in its first step, and returns the empty string.
C6_EmptyDocumentYieldsEmptyString ==
    EmptyDocument =>
        /\ calls = <<>>
        /\ ready = <<>>
        /\ run_state \in {"new", "returned"}
        /\ run_state = "returned" => output = <<>>

\* A document with neither key has returned.
EmptyDocumentNeitherKeyReturned ==
    EmptyDocument /\ run_state = "returned" /\ DOMAIN Doc = {"other_config"}

\* A document whose execution block is a parallel block with blocks: [] has
\* returned.
C6_Witness ==
    /\ EmptyDocument /\ run_state = "returned"
    /\ Doc = [execution |-> [type |-> Str("parallel"), blocks |-> <<>>]]

----------------------------------------------------------------------------
(* C7 *)

\* The block is evaluated as a sequential block.
SequentialLike(b) == "type" \notin DOMAIN b \/ HasType(b, "sequential")

\* C7: a block of an unknown type, once evaluated, has returned exactly one
\* record, "Warning: Unknown block type <type>"; no task was dispatched for it
\* or below it; as the root it makes the run return that record; as a child of
\* a sequential block it is followed by the evaluation of the next child.
C7_UnknownTypeWarns ==
    \A p \in Evaluated :
        UnknownTyped(Orig(p)) =>
            /\ frames[p].st = "done"
            /\ frames[p].results = <<WarningRecord(Orig(p)["type"])>>
            /\ \A n \in DOMAIN calls : ~IsPrefix(p, calls[n].path)
            /\ p = <<>> =>
                   run_state = "returned" /\ output = WarningRecord(Orig(p)["type"])
            /\ (p # <<>> /\ SequentialLike(Orig(Front(p)))
                   /\ Last(p) < Len(Children(Front(p)))) =>
                   Append(Front(p), Last(p) + 1) \in Evaluated

\* A block of unknown type in a sequential block was evaluated, and the
\* activity after it was dispatched and the run returned.
C7_Witness ==
    /\ run_state = "returned"
    /\ \E p \in Evaluated :
           /\ p # <<>> /\ UnknownTyped(Orig(p)) /\ SequentialLike(Orig(Front(p)))
           /\ HasCall(Append(Front(p), Last(p) + 1))

----------------------------------------------------------------------------
(* C8 *)

\* The document has a legacy list and an execution block.
BothKeys == raw_config.valid /\ "activities" \in DOMAIN Doc /\ "execution" \in DOMAIN Doc

\* The records of the legacy list, from step k on.
RECURSIVE LegacyRecords(_)
LegacyRecords(k) ==
    IF k > Len(LegacyList) THEN <<>>
    ELSE <<ActivityRecord(LegacyList[k]["activityName"], ResultOf(<<k>>))>>
             \o LegacyRecords(k + 1)

\* The activity names of the blocks at and below b.
RECURSIVE NamesBelow(_)
NamesBelow(b) ==
    (IF "activityName" \in DOMAIN b THEN {b["activityName"]} ELSE {})
        \cup UNION {NamesBelow(Get(b, "blocks", <<>>)[k]) :
                        k \in 1..Len(Get(b, "blocks", <<>>))}

\* The activity names that appear in the execution block and not in the list.
OnlyInExecutionNames ==
    NamesBelow(Doc["execution"])
        \ {LegacyList[k]["activityName"] :
               k \in {j \in 1..Len(LegacyList) : "activityName" \in DOMAIN LegacyList[j]}}

\* C8: with both a legacy list and an execution block, no activity that appears
\* only in the execution block is dispatched, every dispatch is a step of the
\* list, and the output holds the records of the list and nothing else.
C8_LegacyTakesPriority ==
    BothKeys =>
        /\ \A n \in DOMAIN calls : calls[n].name \notin OnlyInExecutionNames
        /\ \A n \in DOMAIN calls :
               n <= Len(LegacyList) /\ calls[n].name = LegacyList[n]["activityName"]
        /\ run_state = "returned" => output = Join(<<"\n">>, LegacyRecords(1))

\* A document with both keys has returned the records of its two legacy steps.
C8_Witness ==
    /\ BothKeys
    /\ OnlyInExecutionNames # {}
    /\ run_state = "returned"
    /\ Len(calls) = 2

----------------------------------------------------------------------------
(* C9 *)

\* C9, as stated: a block with an activity name and no type is an activity
\* block (evaluating it dispatches the named task), and a block with neither is
\* sequential.
C9_TypelessNamedIsActivity ==
    \A p \in Evaluated :
        "type" \notin DOMAIN Orig(p) =>
            IF "activityName" \in DOMAIN Orig(p)
            THEN HasCall(p) /\ CallOf(p).name = Orig(p)["activityName"]
            ELSE ~HasCall(p)

\* C9, amended: a block with no type is sequential whether or not it has an
\* activity name. No task is dispatched for it; it evaluates the children of
\* its blocks list one after the other and returns their records, so with an
\* activity name and no blocks it returns no record.
C9_TypelessIsSequential ==
    \A p \in Evaluated :
        "type" \notin DOMAIN Orig(p) =>
            /\ ~HasCall(p)
            /\ frames[p].st = "done" => frames[p].results = ExpectedFrom(Children(p), p, 1)
            /\ ("blocks" \notin DOMAIN Orig(p) /\ frames[p].st = "done") =>
                   frames[p].results = <<>>
            /\ \A k \in 2..Len(Children(p)) :
                   Append(p, k) \in Evaluated => frames[Append(p, k - 1)].st = "done"

\* A block with an activity name and no type was evaluated inside a sequential
\* block: it returned no record, and the activity after it was dispatched.
C9_Witness ==
    \E p \in Evaluated :
        /\ p # <<>>
        /\ "type" \notin DOMAIN Orig(p) /\ "activityName" \in DOMAIN Orig(p)
        /\ frames[p].st = "done" /\ frames[p].results = <<>>
        /\ HasCall(Append(Front(p), Last(p) + 1))

----------------------------------------------------------------------------
(* C10 *)

\* The execution tree holds an activity block with no activity name.
RECURSIVE HoldsNameless(_)
HoldsNameless(b) ==
    \/ NamelessActivity(b)
    \/ \E k \in 1..Len(Get(b, "blocks", <<>>)) : HoldsNameless(Get(b, "blocks", <<>>)[k])

----------------------------------------------------------------------------
(* C11 *)

\* The dispatch made at p has failed.
DispatchFailed(p) == HasCall(p) /\ frames[p].st \in {"rejected", "failed"}

\* C11: once a dispatch made by an activity block or by a legacy step has
\* failed, at any depth, the run never returns an output, and it has failed as
\* soon as the event loop has run the coroutines the failure woke.
C11_DispatchFailureFailsTheRun ==
    (\E p \in DOMAIN frames : DispatchFailed(p)) =>
        /\ run_state # "returned"
        /\ output = <<>>
        /\ ready = <<>> => run_state = "failed"

\* The run failed because of a dispatch made two levels below the root: every
\* other block that failed is an ancestor of that dispatch.
C11_Witness ==
    /\ RunsExecution
    /\ run_state = "failed"
    /\ \E p \in DOMAIN frames :
           /\ Len(p) = 2
           /\ DispatchFailed(p)
           /\ \A q \in DOMAIN frames : frames[q].st = "failed" => IsPrefix(q, p)

----------------------------------------------------------------------------
(* C12 *)

\* C12: every dispatch made, by a legacy step or by an activity block, carries
\* a start-to-close timeout of 30 seconds.
C12_EveryDispatchHasTimeout30 ==
    \A n \in DOMAIN calls : calls[n].timeout = 30

\* A run of an execution tree has returned after three dispatches, one of them
\* made two levels below the root.
C12_Witness ==
    /\ RunsExecution
    /\ run_state = "returned"
    /\ Len(calls) >= 3
    /\ \E n \in DOMAIN calls : Len(calls[n].path) = 2

----------------------------------------------------------------------------
(* C13 *)

\* C13: when a run of an execution tree has returned, its output is the records
\* of the activity blocks and of the blocks of unknown type, one line each, in
\* depth-first left-to-right order of the document.
C13_OutputInDocumentOrder ==
    (RunsExecution /\ run_state = "returned") =>
        LET expected == ExpectedRecords(Orig(<<>>), <<>>) IN
        /\ output = Join(<<"\n">>, expected)
        /\ expected # <<>> => Lines(output) = expected

\* A run has returned the records of a sequential block that holds a parallel
\* block of an activity, a block of unknown type and an activity, and the
\* dispatch of the last of these completed before that of the first.
C13_Witness ==
    /\ RunsExecution
    /\ run_state = "returned"
    /\ HasType(Orig(<<>>), "sequential")
    /\ Len(Children(<<>>)) = 2
    /\ HasType(Orig(<<1>>), "parallel")
    /\ Len(Children(<<1>>)) = 3
    /\ UnknownTyped(Orig(<<1, 2>>))
    /\ Len(completions) = 3
    /\ completions[1] = <<1, 3>>
    /\ completions[2] = <<1, 1>>
    /\ Len(Lines(output)) = 4

----------------------------------------------------------------------------
(* C14 *)

\* C14: when a run has ended, returned or failed, the parsed document is equal
\* to what it was before the run, the args of every activity block included.
C14_DocumentUnchangedByRun ==
    (raw_config.valid /\ run_state \in {"returned", "failed"}) => config = Doc

----------------------------------------------------------------------------
(* SampleWorkflow and its activities.                                      *)

\* str.lower(), on the letters A to Z.
UpperToLower ==
    [A |-> "a", B |-> "b", C |-> "c", D |-> "d", E |-> "e", F |-> "f", G |-> "g",
     H |-> "h", I |-> "i", J |-> "j", K |-> "k", L |-> "l", M |-> "m", N |-> "n",
     O |-> "o", P |-> "p", Q |-> "q", R |-> "r", S |-> "s", T |-> "t", U |-> "u",
     V |-> "v", W |-> "w", X |-> "x", Y |-> "y", Z |-> "z"]

Lower(s) ==
    [k \in 1..Len(s) |-> IF s[k] \in DOMAIN UpperToLower THEN UpperToLower[s[k]] ELSE s[k]]

\* needle in s, for two strings given by their characters.
In(needle, s) ==
    \E k \in 1..Len(s) :
        /\ k + Len(needle) <= Len(s) + 1
        /\ SubSeq(s, k, k + Len(needle) - 1) = needle

Forbidden == <<"f", "o", "r", "b", "i", "d", "d", "e", "n">>

\* json.dumps of a str: in double quotes, a double quote and a backslash each
\* preceded by a backslash.
RECURSIVE JsonString(_)
JsonString(s) ==
    IF s = <<>> THEN <<>>
    ELSE (IF Head(s) \in {"\"", "\\"} THEN <<"\\", Head(s)>> ELSE <<Head(s)>>)
             \o JsonString(Tail(s))

\* json.dumps of a list of str: the elements, separated by ", ", in brackets.
RECURSIVE JsonItems(_)
JsonItems(list) ==
    IF list = <<>> THEN <<>>
    ELSE <<"\"">> \o JsonString(Head(list)) \o <<"\"">>
             \o (IF Tail(list) = <<>> THEN <<>> ELSE <<",", " ">> \o JsonItems(Tail(list)))

JsonDumps(list) == <<"[">> \o JsonItems(list) \o <<"]">>

\* check_policy raising with the offending element alone as its message.
check_policy_naming_the_element(args) ==
    IF \E k \in 1..Len(args) : In(Forbidden, Lower(args[k]))
    THEN [ok |-> FALSE, type |-> "POLICY_DENIED", non_retryable |-> TRUE,
          message |-> JsonDumps(<<args[CHOOSE k \in 1..Len(args) :
                                           In(Forbidden, Lower(args[k]))]>>)]
    ELSE [ok |-> TRUE, value |-> <<"approve">>]

\* check_policy: what one attempt returns ([ok |-> TRUE, value]) or raises.
check_policy(args) ==
    IF \E k \in 1..Len(args) : In(Forbidden, Lower(args[k]))
    THEN [ok |-> FALSE, type |-> "POLICY_DENIED", non_retryable |-> TRUE,
          message |-> JsonDumps(args)]
    ELSE [ok |-> TRUE, value |-> <<"approve">>]

\* execute_agent_task: what one attempt returns.
execute_agent_task(args) == <<"SUCCESS">>

\* What the parameter args: list[str] of an activity may hold when the workflow
\* dispatched it with the str task_description: the elements of the str taken
\* one by one (its characters), or the str as the one element of a list.
Delivered(description) ==
    { [k \in 1..Len(description) |-> <<description[k]>>], <<description>> }

\* The retry policies of the four dispatches: maximum_attempts (0: no limit)
\* and non_retryable_error_types.
PolicyRetry == [maximum_attempts |-> 3, non_retryable_error_types |-> {}]
DefaultRetry == [maximum_attempts |-> 0, non_retryable_error_types |-> {}]
\* AgentRetry with maximum_attempts=4.
AgentRetryFourAttempts ==
    [maximum_attempts |-> 4, non_retryable_error_types |-> {"ApplicationError"}]
AgentRetry == [maximum_attempts |-> 3, non_retryable_error_types |-> {"ApplicationError"}]

\* The activity SampleWorkflow.run awaits at sample_pc, and its retry policy.
ActivityAt(pc) ==
    IF pc = "policy" THEN [name |-> "CheckPolicy", retry_policy |-> PolicyRetry]
    ELSE IF pc = "request"
    THEN [name |-> "RequestHumanApproval", retry_policy |-> DefaultRetry]
    ELSE IF pc = "agent" THEN [name |-> "ExecuteAgentTask", retry_policy |-> AgentRetry]
    ELSE [name |-> "CleanupTask", retry_policy |-> DefaultRetry]

AwaitsActivity == sample_pc \in {"policy", "request", "agent", "cleanup"}

\* The number of the attempt in progress.
CurrentAttempt == Last(attempts).attempt

\* The substrate retries a failed attempt.
Retries(retry_policy, attempt, failure) ==
    /\ ~failure.non_retryable
    /\ failure.type \notin retry_policy.non_retryable_error_types
    /\ retry_policy.maximum_attempts = 0 \/ attempt < retry_policy.maximum_attempts

\* The ways an attempt fails that the activity's own code does not decide: it
\* raises an error of some type, or it exceeds its start-to-close timeout.
Failures ==
    { [ok |-> FALSE, type |-> "RuntimeError", non_retryable |-> FALSE],
      [ok |-> FALSE, type |-> "ApplicationError", non_retryable |-> FALSE],
      [ok |-> FALSE, type |-> "TimeoutError", non_retryable |-> FALSE] }

\* f"{x}" for an optional str.
Format(x) == IF x = None THEN <<"None">> ELSE x[1]

\* The documents the tasks are described by.
TaskDescriptions ==
    { <<"o", "k">>,
      <<"f", "o", "r", "b", "i", "d">>,
      <<"a", " ">> \o Forbidden \o <<" ", "b">>,
      <<"F", "O", "R", "b", "i", "d", "d", "e", "N">> }

\* The reasons a signal may carry.
Reasons == {None, Some(<<"too risky">>)}

\* No DynamicWorkflow is running.
DynamicIdle ==
    /\ raw_config = [valid |-> FALSE, doc |-> EmptyMap, same |-> {}]
    /\ config = EmptyMap
    /\ run_state = "idle"
    /\ output = <<>>
    /\ frames = <<>>
    /\ ready = <<>>
    /\ calls = <<>>
    /\ completions = <<>>

\* SampleWorkflow.__init__
SampleInit ==
    /\ DynamicIdle
    /\ ActivityIdle
    /\ task_description \in TaskDescriptions
    /\ human_approved = None
    /\ rejection_reason = None
    /\ sample_pc = "new"
    /\ execution_result = None
    /\ sample_result = <<>>
    /\ attempts = <<>>
    /\ wait_ended = "no"
    /\ signals = 0
    /\ last_signal = None

\* run returns value.
Returns(value) ==
    /\ sample_pc' = "returned"
    /\ sample_result' = value
    /\ UNCHANGED attempts

\* run calls workflow.execute_activity and awaits it at pc.
Dispatches(pc) ==
    /\ sample_pc' = pc
    /\ attempts' = Append(attempts, [name |-> ActivityAt(pc).name, attempt |-> 1])
    /\ UNCHANGED sample_result

\* AttemptFailed with the cleanup dispatched when the agent task has failed for
\* good (the cleanup in a finally clause).
AttemptFailedThenCleanup(failure) ==
    LET activity == ActivityAt(sample_pc) IN
    /\ IF Retries(activity.retry_policy, CurrentAttempt, failure)
       THEN /\ activity.retry_policy.maximum_attempts = 0 => CurrentAttempt < MaxAttempts
            /\ attempts' = Append(attempts, [name |-> activity.name,
                                             attempt |-> CurrentAttempt + 1])
            /\ UNCHANGED sample_pc
       ELSE IF sample_pc = "agent"
       THEN /\ sample_pc' = "cleanup"
            /\ attempts' = Append(attempts, [name |-> "CleanupTask", attempt |-> 1])
       ELSE /\ sample_pc' = "failed"
            /\ UNCHANGED attempts
    /\ UNCHANGED <<sample_result, wait_ended, execution_result>>

\* The attempt in progress fails: the substrate starts another attempt, or the
\* failure is raised in run at its await, where nothing catches it.
AttemptFailed(failure) ==
    LET activity == ActivityAt(sample_pc) IN
    /\ IF Retries(activity.retry_policy, CurrentAttempt, failure)
       THEN /\ activity.retry_policy.maximum_attempts = 0 => CurrentAttempt < MaxAttempts
            /\ attempts' = Append(attempts, [name |-> activity.name,
                                             attempt |-> CurrentAttempt + 1])
            /\ UNCHANGED sample_pc
       ELSE /\ sample_pc' = "failed"
            /\ UNCHANGED attempts
    /\ UNCHANGED <<sample_result, wait_ended, execution_result>>

\* run from line 25 to its first await.
SampleRun ==
    /\ sample_pc = "new"
    /\ Dispatches("policy")
    /\ UNCHANGED <<task_description, human_approved, rejection_reason, execution_result,
                   wait_ended, signals, last_signal>>
    /\ UNCHANGED <<dynamic_vars, activity_vars>>

\* AfterWait without the test of line 66.
AfterWaitWhateverTheDecision ==
    /\ wait_ended' = IF human_approved[1] THEN "True" ELSE "False"
    /\ Dispatches("agent")

\* run after the approval wait (lines 66 to 81).
AfterWait ==
    /\ wait_ended' = IF human_approved[1] THEN "True" ELSE "False"
    /\ IF ~human_approved[1]
       THEN Returns(<<"TERMINATED_REJECTED: ">> \o Format(rejection_reason))
       ELSE Dispatches("agent")

\* An attempt of check_policy ends, and run goes on from line 38.
PolicyAttempt ==
    /\ sample_pc = "policy"
    /\ \E args \in Delivered(task_description) :
           LET outcome == check_policy(args) IN
           IF ~outcome.ok THEN AttemptFailed(outcome)
           ELSE /\ IF outcome.value # <<"approve">>
                   THEN Returns(<<"TERMINATED_POLICY_DENIAL">>)
                   ELSE Dispatches("request")
                /\ UNCHANGED <<wait_ended, execution_result>>
    /\ UNCHANGED <<task_description, human_approved, rejection_reason, signals, last_signal>>
    /\ UNCHANGED <<dynamic_vars, activity_vars>>

\* An attempt of the awaited activity fails for a reason of the environment.
AttemptFails(failure) ==
    /\ AwaitsActivity
    /\ AttemptFailed(failure)
    /\ UNCHANGED <<task_description, human_approved, rejection_reason, signals, last_signal>>
    /\ UNCHANGED <<dynamic_vars, activity_vars>>

\* request_human_approval leaves its attempt open (raise_complete_async); the
\* attempt is completed from outside, and run goes on from line 49 to the wait
\* or, when a decision is already there, past it.
ApprovalRequestCompleted ==
    /\ sample_pc = "request"
    /\ IF human_approved # None THEN AfterWait
       ELSE /\ sample_pc' = "wait"
            /\ UNCHANGED <<sample_result, attempts, wait_ended>>
    /\ UNCHANGED <<task_description, human_approved, rejection_reason, execution_result,
                   signals, last_signal>>
    /\ UNCHANGED <<dynamic_vars, activity_vars>>

\* wait_condition finds its condition true.
WaitSatisfied ==
    /\ sample_pc = "wait"
    /\ human_approved # None
    /\ AfterWait
    /\ UNCHANGED <<task_description, human_approved, rejection_reason, execution_result,
                   signals, last_signal>>
    /\ UNCHANGED <<dynamic_vars, activity_vars>>

\* WaitTimeout with nothing catching asyncio.TimeoutError.
WaitTimeoutUncaught ==
    /\ sample_pc = "wait"
    /\ human_approved = None
    /\ wait_ended' = "timeout"
    /\ sample_pc' = "failed"
    /\ UNCHANGED <<task_description, human_approved, rejection_reason, execution_result,
                   sample_result, attempts, signals, last_signal>>
    /\ UNCHANGED <<dynamic_vars, activity_vars>>

\* wait_condition times out: asyncio.TimeoutError is caught at line 61.
WaitTimeout ==
    /\ sample_pc = "wait"
    /\ human_approved = None
    /\ wait_ended' = "timeout"
    /\ Returns(<<"TERMINATED_TIMEOUT">>)
    /\ UNCHANGED <<task_description, human_approved, rejection_reason, execution_result,
                   signals, last_signal>>
    /\ UNCHANGED <<dynamic_vars, activity_vars>>

\* An attempt of execute_agent_task returns, and run dispatches the cleanup.
AgentAttempt ==
    /\ sample_pc = "agent"
    /\ \E args \in Delivered(task_description) :
           execution_result' = Some(execute_agent_task(args))
    /\ Dispatches("cleanup")
    /\ UNCHANGED <<task_description, human_approved, rejection_reason, wait_ended,
                   signals, last_signal>>
    /\ UNCHANGED <<dynamic_vars, activity_vars>>

\* An attempt of cleanup_task returns, and run returns.
CleanupAttempt ==
    /\ sample_pc = "cleanup"
    /\ Returns(<<"COMPLETED: ">> \o Format(execution_result))
    /\ UNCHANGED <<task_description, human_approved, rejection_reason, execution_result,
                   wait_ended, signals, last_signal>>
    /\ UNCHANGED <<dynamic_vars, activity_vars>>

\* human_approval_signal taking effect only while run is at the approval wait:
\* a signal delivered at another time is dropped.
human_approval_signal_only_at_the_wait(approved, reason) ==
    /\ sample_pc \notin {"idle", "returned", "failed"}
    /\ signals < MaxSignals
    /\ human_approved' = IF sample_pc = "wait" THEN Some(approved) ELSE human_approved
    /\ rejection_reason' = IF sample_pc = "wait" THEN reason ELSE rejection_reason
    /\ signals' = signals + 1
    /\ last_signal' = Some([approved |-> approved, reason |-> reason])
    /\ UNCHANGED <<task_description, sample_pc, execution_result, sample_result, attempts,
                   wait_ended>>
    /\ UNCHANGED <<dynamic_vars, activity_vars>>

\* human_approval_signal keeping the stored reason when it is called without one.
human_approval_signal_keeping_reason(approved, reason) ==
    /\ sample_pc \notin {"idle", "returned", "failed"}
    /\ signals < MaxSignals
    /\ human_approved' = Some(approved)
    /\ rejection_reason' = IF reason = None THEN rejection_reason ELSE reason
    /\ signals' = signals + 1
    /\ last_signal' = Some([approved |-> approved, reason |-> reason])
    /\ UNCHANGED <<task_description, sample_pc, execution_result, sample_result, attempts,
                   wait_ended>>
    /\ UNCHANGED <<dynamic_vars, activity_vars>>

\* SampleWorkflow.human_approval_signal, delivered to a workflow that has not
\* ended.
human_approval_signal(approved, reason) ==
    /\ sample_pc \notin {"idle", "returned", "failed"}
    /\ signals < MaxSignals
    /\ human_approved' = Some(approved)
    /\ rejection_reason' = reason
    /\ signals' = signals + 1
    /\ last_signal' = Some([approved |-> approved, reason |-> reason])
    /\ UNCHANGED <<task_description, sample_pc, execution_result, sample_result, attempts,
                   wait_ended>>
    /\ UNCHANGED <<dynamic_vars, activity_vars>>

SampleNext ==
    \/ SampleRun
    \/ PolicyAttempt
    \/ \E failure \in Failures : AttemptFails(failure)
    \/ ApprovalRequestCompleted
    \/ WaitSatisfied
    \/ WaitTimeout
    \/ AgentAttempt
    \/ CleanupAttempt
    \/ \E approved \in BOOLEAN : \E reason \in Reasons : human_approval_signal(approved, reason)

SpecSample == SampleInit /\ [][SampleNext]_vars

\* The substrate runs the workflow and the attempts of its activities, and its
\* timers fire; signals, failures and the completion of the approval request
\* from outside happen or not.
FairSpecSample ==
    /\ SpecSample
    /\ WF_vars(SampleRun)
    /\ WF_vars(PolicyAttempt)
    /\ WF_vars(WaitSatisfied)
    /\ WF_vars(WaitTimeout)
    /\ WF_vars(AgentAttempt)
    /\ WF_vars(CleanupAttempt)

----------------------------------------------------------------------------
(* What the properties of SampleWorkflow read.                             *)

\* The task description contains "forbidden", in any letter case.
DescriptionForbidden == In(Forbidden, Lower(task_description))

\* The number of attempts of the activity name started so far.
AttemptsOf(name) == Cardinality({n \in DOMAIN attempts : attempts[n].name = name})

\* The activity name has been dispatched.
Dispatched(name) == AttemptsOf(name) > 0

SampleEnded == sample_pc \in {"returned", "failed"}

----------------------------------------------------------------------------
(* C15 *)

\* C15: for a task description that contains "forbidden", a run that has ended
\* has returned "TERMINATED_POLICY_DENIAL", and neither the approval request
\* nor the agent task is ever dispatched.
C15_ForbiddenTaskReturnsPolicyDenial ==
    DescriptionForbidden =>
        /\ SampleEnded =>
               sample_pc = "returned" /\ sample_result = <<"TERMINATED_POLICY_DENIAL">>
        /\ ~Dispatched("RequestHumanApproval")
        /\ ~Dispatched("ExecuteAgentTask")

\* No run returns "TERMINATED_POLICY_DENIAL": check_policy returns "approve" or
\* raises.
PolicyDenialNeverReturned == sample_result # <<"TERMINATED_POLICY_DENIAL">>

----------------------------------------------------------------------------
(* C16 *)

\* No attempt has failed, but for attempts of the approval request (which the
\* substrate times out and starts again), and every signal delivered was an
\* approval.
OnlyApprovalsAndNoFailure ==
    /\ \A n \in DOMAIN attempts :
           attempts[n].name # "RequestHumanApproval" => attempts[n].attempt = 1
    /\ sample_pc # "failed"
    /\ last_signal # None => last_signal[1].approved

\* C16: in a run in which no attempt of the policy check, the agent task or the
\* cleanup fails and every signal is an approval,
\* once the policy check has approved and an approval signal has been delivered
\* the run eventually returns "COMPLETED: SUCCESS", whatever else happens or
\* does not happen outside the workflow.
C16_ApprovalSignalCompletes ==
    []OnlyApprovalsAndNoFailure =>
        ((Dispatched("RequestHumanApproval") /\ signals > 0)
            ~> (sample_pc = "returned" /\ sample_result = <<"COMPLETED: ", "SUCCESS">>))

----------------------------------------------------------------------------
(* C17 *)

\* C17: when the approval wait has ended on a rejection, the run has returned
\* "TERMINATED_REJECTED: " followed by the reason of that rejection, and
\* neither the agent task nor the cleanup task is ever dispatched.
C17_RejectionTerminates ==
    wait_ended = "False" =>
        /\ sample_pc = "returned"
        /\ sample_result = <<"TERMINATED_REJECTED: ">> \o Format(last_signal[1].reason)
        /\ ~Dispatched("ExecuteAgentTask")
        /\ ~Dispatched("CleanupTask")

\* The run was rejected with a reason by the last of at least two signals.
C17_Witness ==
    /\ wait_ended = "False"
    /\ signals >= 2
    /\ rejection_reason = Some(<<"too risky">>)
    /\ sample_result = <<"TERMINATED_REJECTED: ", "too risky">>

----------------------------------------------------------------------------
(* C18 *)

\* C18: when the approval wait has timed out, the run has returned
\* "TERMINATED_TIMEOUT", and neither the agent task nor the cleanup task is
\* ever dispatched.
C18_TimeoutTerminates ==
    wait_ended = "timeout" =>
        /\ sample_pc = "returned"
        /\ sample_result = <<"TERMINATED_TIMEOUT">>
        /\ ~Dispatched("ExecuteAgentTask")
        /\ ~Dispatched("CleanupTask")

\* The wait timed out after the approval request had been completed with no
\* signal delivered.
C18_Witness ==
    /\ wait_ended = "timeout"
    /\ Dispatched("RequestHumanApproval")
    /\ signals = 0
    /\ sample_pc = "returned"

----------------------------------------------------------------------------
(* C19 *)

\* C19: the approval state is (None, None) until the first signal, and after
\* that it is the (approved, reason) pair of the last call of
\* human_approval_signal.
C19_ApprovalStateIsLastSignal ==
    /\ signals = 0 => human_approved = None /\ rejection_reason = None
    /\ signals > 0 =>
           /\ human_approved = Some(last_signal[1].approved)
           /\ rejection_reason = last_signal[1].reason

\* After three signals the state is an approval without a reason.
C19_Witness ==
    /\ signals = 3
    /\ human_approved = Some(TRUE)
    /\ rejection_reason = None
    /\ last_signal = Some([approved |-> TRUE, reason |-> None])

----------------------------------------------------------------------------
(* C20 *)

\* C20: the agent task is never attempted more than 3 times; once an attempt
\* has succeeded after k failed ones it has been attempted k + 1 times, the
\* run goes on to the cleanup, and what it returns is "COMPLETED: SUCCESS".
C20_AgentTaskAttemptedAtMostThrice ==
    /\ AttemptsOf("ExecuteAgentTask") <= 3
    /\ \A n \in DOMAIN attempts :
           attempts[n].name = "ExecuteAgentTask" =>
               attempts[n].attempt = Cardinality({j \in 1..n : attempts[j].name = "ExecuteAgentTask"})
    /\ execution_result # None =>
           /\ sample_pc \in {"cleanup", "returned"}
           /\ sample_pc = "returned" => sample_result = <<"COMPLETED: ", "SUCCESS">>

\* The agent task succeeded on its third attempt and the run returned.
C20_Witness ==
    /\ AttemptsOf("ExecuteAgentTask") = 3
    /\ sample_pc = "returned"
    /\ sample_result = <<"COMPLETED: ", "SUCCESS">>

----------------------------------------------------------------------------
(* check_policy called directly, as the tests of the activities call it.   *)

\* The strings the argument lists are made of.
PolicyStrings ==
    { <<"o", "k">>,
      <<"f", "o", "r", "b", "i", "d">>,
      Forbidden,
      <<"x", " ">> \o Forbidden \o <<"!">>,
      <<"F", "o", "r", "B", "I", "D", "D", "E", "N">>,
      <<"\"", "\\", "f">> }

CheckPolicyInit ==
    /\ DynamicIdle
    /\ SampleIdle
    /\ policy_args \in SeqsUpTo(PolicyStrings, MaxArgs)
    /\ policy_outcome = None

\* await check_policy(policy_args)
CallCheckPolicy ==
    /\ policy_outcome = None
    /\ policy_outcome' = Some(check_policy(policy_args))
    /\ UNCHANGED <<policy_args, dynamic_vars, sample_vars>>

CheckPolicyNext == CallCheckPolicy

SpecCheckPolicy == CheckPolicyInit /\ [][CheckPolicyNext]_vars

----------------------------------------------------------------------------
(* C21 *)

\* The string s contains the word "forbidden", each letter in either case.
HoldsForbiddenWord(s) ==
    \E k \in 1..Len(s) :
        /\ k + 8 <= Len(s)
        /\ \A j \in 1..9 :
               \/ s[k + j - 1] = Forbidden[j]
               \/ /\ s[k + j - 1] \in DOMAIN UpperToLower
                  /\ UpperToLower[s[k + j - 1]] = Forbidden[j]

\* json.loads of the encoding of a list of str: the strings between double
\* quotes, a backslash standing before a character taken as it is.
RECURSIVE JsonReadString(_, _, _)
JsonReadString(t, k, read) ==
    IF t[k] = "\"" THEN [str |-> read, next |-> k + 1]
    ELSE IF t[k] = "\\" THEN JsonReadString(t, k + 2, Append(read, t[k + 1]))
    ELSE JsonReadString(t, k + 1, Append(read, t[k]))

RECURSIVE JsonReadItems(_, _, _)
JsonReadItems(t, k, items) ==
    IF t[k] = "]" THEN items
    ELSE LET item == JsonReadString(t, k + 1, <<>>) IN
         IF t[item.next] = ","
         THEN JsonReadItems(t, item.next + 2, Append(items, item.str))
         ELSE JsonReadItems(t, item.next, Append(items, item.str))

JsonLoads(t) == JsonReadItems(t, 2, <<>>)

\* C21: check_policy returns "approve" when no element of its argument list
\* contains the word "forbidden" in any letter case; otherwise it raises a
\* non-retryable POLICY_DENIED error whose message decodes, as JSON, to the
\* whole argument list.
C21_CheckPolicyDeniesForbidden ==
    policy_outcome # None =>
        LET outcome == policy_outcome[1] IN
        IF \E k \in 1..Len(policy_args) : HoldsForbiddenWord(policy_args[k])
        THEN /\ ~outcome.ok
             /\ outcome.type = "POLICY_DENIED"
             /\ outcome.non_retryable
             /\ Head(outcome.message) = "[" /\ Last(outcome.message) = "]"
             /\ JsonLoads(outcome.message) = policy_args
        ELSE outcome.ok /\ outcome.value = <<"approve">>

\* check_policy has denied a list of three elements of which only the second
\* holds the word, and whose third holds a double quote and a backslash.
C21_Witness ==
    /\ policy_outcome # None
    /\ ~policy_outcome[1].ok
    /\ Len(policy_args) = 3
    /\ ~HoldsForbiddenWord(policy_args[1])
    /\ HoldsForbiddenWord(policy_args[2])
    /\ policy_args[3] = <<"\"", "\\", "f">>

----------------------------------------------------------------------------
(* C22 *)

\* C22: for a text that cannot be parsed, the run, once started, has failed:
\* it returns no output, it has evaluated no block and it has dispatched no
\* task.
C22_UnparsableDocumentFails ==
    (~raw_config.valid /\ run_state # "new") =>
        /\ run_state = "failed"
        /\ output = <<>>
        /\ calls = <<>>
        /\ frames = <<>>
        /\ ready = <<>>

\* The run of a text that cannot be parsed has failed.
C22_Witness ==
    /\ ~raw_config.valid
    /\ run_state = "failed"
    /\ calls = <<>>

----------------------------------------------------------------------------
(* C23 *)

\* The blocks whose children run one after the other: the sequential blocks
\* evaluated so far, and the root of a legacy run, whose steps are its children.
RunsInOrder(p) ==
    IF RunsLegacy THEN p = <<>>
    ELSE p \in Evaluated /\ BlockType(Orig(p)) = Str("sequential")

\* The dispatches made at or below child k of the block at p.
CallsBelow(p, k) == {n \in DOMAIN calls : IsPrefix(Append(p, k), calls[n].path)}

\* C23: in a sequential block and in the legacy list, when a task of a child
\* or of anything nested in it has been dispatched, every task of every earlier
\* child, nested blocks included, was dispatched before it and has completed
\* and returned its record.
C23_ChildrenRunOneAfterTheOther ==
    \A b \in DOMAIN calls : \A d \in 1..Len(calls[b].path) :
        LET p == SubSeq(calls[b].path, 1, d - 1)
            later == calls[b].path[d]
        IN  RunsInOrder(p) =>
                \A k \in 1..(later - 1) : \A a \in CallsBelow(p, k) :
                    /\ a < b
                    /\ frames[calls[a].path].st = "done"

\* The third child of a sequential block has been dispatched after the two
\* activities of the parallel block that is its second child.
C23_Witness ==
    /\ RunsExecution
    /\ HasType(Orig(<<>>), "sequential")
    /\ Len(Children(<<>>)) = 3
    /\ HasType(Orig(<<2>>), "parallel")
    /\ HasCall(<<1>>)
    /\ HasCall(<<2, 1>>)
    /\ HasCall(<<2, 2>>)
    /\ HasCall(<<3>>)

----------------------------------------------------------------------------
(* C24 *)

\* The block at r is a later sibling of the block at q, or lies below one.
BelowLaterSibling(q, r) ==
    /\ Len(r) >= Len(q)
    /\ SubSeq(r, 1, Len(q) - 1) = Front(q)
    /\ r[Len(q)] > Last(q)

\* C24: once a child of a sequential block, or a step of the legacy list, has
\* failed, no later child of that block has been evaluated and no task of a
\* later child has been dispatched.
C24_FailureStopsTheSequence ==
    \A q \in DOMAIN frames :
        (Len(q) > 0 /\ frames[q].st \in {"rejected", "failed"} /\ RunsInOrder(Front(q))) =>
            /\ \A r \in DOMAIN frames : ~BelowLaterSibling(q, r)
            /\ \A n \in DOMAIN calls : ~BelowLaterSibling(q, calls[n].path)

\* The run of a sequential block of three activities has failed on the failure
\* of the dispatch of the second, after the first had returned its record.
C24_Witness ==
    /\ RunsExecution
    /\ run_state = "failed"
    /\ HasType(Orig(<<>>), "sequential")
    /\ Len(Children(<<>>)) = 3
    /\ NamedActivity(Orig(<<3>>))
    /\ frames[<<1>>].st = "done"
    /\ DispatchFailed(<<2>>)
    /\ Len(calls) = 2

----------------------------------------------------------------------------
(* C25 *)

\* The child at q of a parallel block has failed: its coroutine has raised.
ParallelChildRaised(q) ==
    /\ q \in Evaluated
    /\ Len(q) > 0
    /\ HasType(Orig(Front(q)), "parallel")
    /\ frames[q].st = "failed"

\* The block at r is a sibling of the block at q, or lies below one.
BelowSibling(q, r) ==
    /\ Len(r) >= Len(q)
    /\ SubSeq(r, 1, Len(q) - 1) = Front(q)
    /\ r[Len(q)] # Last(q)

\* C25: once a child of a parallel block has failed, no step dispatches a task
\* of a sibling of that child.
C25_SiblingsDispatchNothingAfterFailure ==
    [][\A q \in DOMAIN frames :
           ParallelChildRaised(q) =>
               \A n \in DOMAIN calls' :
                   n > Len(calls) => ~BelowSibling(q, calls'[n].path)]_vars

----------------------------------------------------------------------------
(* C26 *)

\* C26: once a child of a parallel block has failed, gather has handed the
\* failure to the block, whatever its other children are doing: the block is
\* queued to raise, or it has raised to its parent.
C26_ParallelBlockFailsFast ==
    \A q \in DOMAIN frames :
        ParallelChildRaised(q) =>
            \/ frames[Front(q)].st = "failed"
            \/ /\ frames[Front(q)].st = "gfail"
               /\ \E n \in DOMAIN ready : ready[n] = Front(q)

\* A parallel block inside a sequential block has failed, and with it the run,
\* while the dispatch of another of its children is still in flight.
C26_Witness ==
    /\ RunsExecution
    /\ run_state = "failed"
    /\ \E q \in DOMAIN frames : \E r \in DOMAIN frames :
           /\ Len(q) = 2
           /\ ParallelChildRaised(q)
           /\ frames[Front(q)].st = "failed"
           /\ BelowSibling(q, r)
           /\ frames[r].st = "await"

----------------------------------------------------------------------------
(* C27 *)

\* No mapping of the document occurs at two places of the tree.
NoMappingRepeats == raw_config.same = {}

\* C27: an activity block that is a child of a parallel block is dispatched
\* with exactly the args the document gives it, whatever its useDataFlow.
C27_ParallelChildGetsOwnArgs ==
    \A p \in Evaluated :
        (Len(p) > 0 /\ HasType(Orig(Front(p)), "parallel") /\ HasCall(p)) =>
            CallOf(p).args = OwnArgs(p)

\* What holds of the code: the same, for a document with no repeated mapping.
ParallelChildGetsOwnArgsInTrees == NoMappingRepeats => C27_ParallelChildGetsOwnArgs

----------------------------------------------------------------------------
(* C28 *)

\* The block is evaluated as a sequential block: its type says so, or it has
\* no type.
EvaluatedAsSequential(b) == Get(b, "type", Str("sequential")) = Str("sequential")

\* The child of a sequential block at p comes after an activity block of the
\* same sequential block.
HasEarlierActivity(p) ==
    /\ Len(p) > 0
    /\ EvaluatedAsSequential(Orig(Front(p)))
    /\ \E j \in 1..(Last(p) - 1) : HasType(Orig(Append(Front(p), j)), "activity")

\* The nearest activity block before p in its sequential block.
EarlierActivity(p) ==
    LET j == CHOOSE j \in 1..(Last(p) - 1) :
                 /\ HasType(Orig(Append(Front(p), j)), "activity")
                 /\ \A i \in (j + 1)..(Last(p) - 1) :
                        ~HasType(Orig(Append(Front(p), i)), "activity")
    IN  Append(Front(p), j)

\* The activity block at p is handed a value by its sequential block.
ReceivesInbound(p) ==
    /\ HasEarlierActivity(p)
    /\ HasType(Orig(p), "activity")
    /\ FlowOn(Orig(p))

\* The value the sequential block holds for the block at p.
InboundValue(p) == ActualResult(Last(frames[EarlierActivity(p)].results))

\* C28: an activity block that receives an inbound value is dispatched with
\* the inbound value followed by all its own args in their order: one element
\* more than its own args, none of them dropped, moved or repeated.
C28_InboundThenOwnArgs ==
    \A p \in Evaluated :
        (ReceivesInbound(p) /\ HasCall(p)) =>
            /\ CallOf(p).args = <<InboundValue(p)>> \o OwnArgs(p)
            /\ Len(CallOf(p).args) = Len(OwnArgs(p)) + 1

\* What holds of the code: the same, for a document with no repeated mapping.
InboundThenOwnArgsInTrees == NoMappingRepeats => C28_InboundThenOwnArgs

----------------------------------------------------------------------------
(* C29 *)

\* C29: an activity block with useDataFlow false, and an activity block with
\* no activity before it in its sequential block (the root block included), is
\* dispatched with exactly its own args.
C29_NoInboundMeansOwnArgs ==
    \A p \in Evaluated :
        ( /\ HasCall(p)
          /\ p = <<>> \/ EvaluatedAsSequential(Orig(Front(p)))
          /\ ~FlowOn(Orig(p)) \/ ~HasEarlierActivity(p) ) =>
            CallOf(p).args = OwnArgs(p)

\* What holds of the code: the same, for a document with no repeated mapping.
NoInboundMeansOwnArgsInTrees == NoMappingRepeats => C29_NoInboundMeansOwnArgs

----------------------------------------------------------------------------
(* C30 *)

IsWarning(record) == record # <<>> /\ record[1] = "Warning: Unknown block type "

\* The block before p in its sequential block is not an activity block and
\* has returned records of which the last is a warning.
FollowsWarning(p) ==
    /\ Len(p) > 0
    /\ HasType(Orig(Front(p)), "sequential")
    /\ Last(p) > 1
    /\ LET s == Append(Front(p), Last(p) - 1) IN
           /\ ~HasType(Orig(s), "activity")
           /\ s \in DOMAIN frames
           /\ frames[s].st = "done"
           /\ frames[s].results # <<>>
           /\ IsWarning(Last(frames[s].results))

\* C30: in a sequential block, an activity child that follows a composite or
\* unknown-type child whose last record is a warning is dispatched with the
\* text of that warning as its first arg.
C30_WarningTextIsForwarded ==
    \A p \in Evaluated :
        (FollowsWarning(p) /\ NamedActivity(Orig(p)) /\ FlowOn(Orig(p)) /\ HasCall(p)) =>
            /\ CallOf(p).args # <<>>
            /\ CallOf(p).args[1] = Last(frames[Append(Front(p), Last(p) - 1)].results)

\* What the code does: no dispatch is ever handed a warning.
WarningNeverForwarded ==
    \A n \in DOMAIN calls : \A k \in DOMAIN calls[n].args : ~IsWarning(calls[n].args[k])

----------------------------------------------------------------------------
(* C31 *)

\* The block at p lies directly inside a sequential, parallel or unknown-type
\* child of a sequential block that holds a value from an earlier activity.
NestedBelowHeldValue(p) ==
    /\ Len(p) >= 2
    /\ ~HasType(Orig(Front(p)), "activity")
    /\ HasEarlierActivity(Front(p))

\* C31: in a sequential block an activity child with useDataFlow true receives
\* the result of the nearest earlier sibling that is an activity block, whatever
\* sequential, parallel or unknown-type siblings lie between them; and an
\* activity nested inside such a sibling receives no value from the outer block.
C31_NearestActivitySiblingFeeds ==
    \A p \in Evaluated :
        HasCall(p) =>
            /\ ReceivesInbound(p) =>
                   /\ CallOf(p).args # <<>>
                   /\ CallOf(p).args[1] = ResultOf(EarlierActivity(p))
            /\ (NestedBelowHeldValue(p) /\ ~ReceivesInbound(p)) =>
                   CallOf(p).args = OwnArgs(p)

\* What holds of the code: the same, when the name of the earlier activity
\* does not hold the text "Result: " and no mapping occurs twice.
NearestActivitySiblingFeedsPlainNames ==
    NoMappingRepeats =>
        \A p \in Evaluated :
            HasCall(p) =>
                /\ ( /\ ReceivesInbound(p)
                     /\ ~Contains(Orig(EarlierActivity(p))["activityName"], ResultLabel) ) =>
                       CallOf(p).args = <<ResultOf(EarlierActivity(p))>> \o OwnArgs(p)
                /\ (NestedBelowHeldValue(p) /\ ~ReceivesInbound(p)) =>
                       CallOf(p).args = OwnArgs(p)

\* A composite sibling lies between an activity and the activity that has been
\* dispatched with its result.
CompositeBetweenReached ==
    /\ RunsExecution
    /\ NoMappingRepeats
    /\ \E p \in Evaluated :
           /\ HasCall(p)
           /\ ReceivesInbound(p)
           /\ EarlierActivity(p) # Append(Front(p), Last(p) - 1)
           /\ frames[Append(Front(p), Last(p) - 1)].results # <<>>
           /\ CallOf(p).args[1] = ResultOf(EarlierActivity(p))

----------------------------------------------------------------------------
(* C32 *)

\* The number of dispatch calls made for the block or legacy step at p.
DispatchesAt(p) == Cardinality({n \in DOMAIN calls : calls[n].path = p})

\* The legacy steps evaluated so far.
EvaluatedSteps ==
    IF RunsLegacy /\ <<>> \in DOMAIN frames
    THEN {k \in 1..Len(LegacyList) : k <= frames[<<>>].i}
    ELSE {}

\* The activity blocks of the tree below b.
RECURSIVE ActivityLeaves(_)
RECURSIVE ActivityLeavesFrom(_, _)
ActivityLeaves(b) ==
    IF HasType(b, "activity") THEN 1
    ELSE IF UnknownTyped(b) THEN 0
    ELSE ActivityLeavesFrom(Get(b, "blocks", <<>>), 1)
ActivityLeavesFrom(bs, k) ==
    IF k > Len(bs) THEN 0 ELSE ActivityLeaves(bs[k]) + ActivityLeavesFrom(bs, k + 1)

\* In a run that returned, the calls are as many as the activity leaves.
CallsMatchLeaves ==
    run_state = "returned" =>
        /\ RunsExecution => Len(calls) = ActivityLeaves(Orig(<<>>))
        /\ RunsLegacy => Len(calls) = Len(LegacyList)

----------------------------------------------------------------------------
(* C33 *)

\* The activity child at p of a sequential block has returned its record.
ForwardingChild(p) ==
    /\ Len(p) > 0
    /\ EvaluatedAsSequential(Orig(Front(p)))
    /\ NamedActivity(Orig(p))
    /\ frames[p].st = "done"

\* C33: the value a sequential block recovers from the rendered record of an
\* activity child equals the string the dispatcher returned for it, for every
\* activity name and every result, those holding the text "Result: " included.
C33_RecoveredValueIsTheResult ==
    \A p \in Evaluated :
        ForwardingChild(p) => ActualResult(Last(frames[p].results)) = ResultOf(p)

\* What holds of the code: the same, when the activity name does not hold the
\* text "Result: " (the result may hold it).
RecoveredValueIsTheResultPlainNames ==
    \A p \in Evaluated :
        (ForwardingChild(p) /\ ~Contains(Orig(p)["activityName"], ResultLabel)) =>
            ActualResult(Last(frames[p].results)) = ResultOf(p)

\* A result that holds "Result: " has been recovered from its record.
ResultWithLabelRecovered ==
    \E p \in Evaluated :
        /\ ForwardingChild(p)
        /\ Contains(ResultOf(p), ResultLabel)
        /\ ActualResult(Last(frames[p].results)) = ResultOf(p)

----------------------------------------------------------------------------
(* C34 *)

\* A task that returns the same result for the same args: here the result
\* depends on the number of args.
TaskResult(name, args) ==
    IF Len(args) % 2 = 0 THEN <<"data_extracted">> ELSE <<"ok ", ResultLabel, "7">>

\* Every dispatch that has returned so far returned what TaskResult gives.
TasksAreFunctions ==
    \A n \in DOMAIN calls :
        frames[calls[n].path].st \in {"resolved", "done"} =>
            frames[calls[n].path].val = TaskResult(calls[n].name, calls[n].args)

\* Nothing has failed so far.
NothingFailed ==
    /\ run_state # "failed"
    /\ \A p \in DOMAIN frames : frames[p].st \notin {"rejected", "failed", "gfail"}

\* The run of the same document under one fixed schedule: each dispatch
\* returns TaskResult as soon as the event loop is idle, the oldest pending
\* dispatch first.
RECURSIVE ReferenceRun(_)
ReferenceRun(m) ==
    IF m.ready # <<>>
    THEN ReferenceRun(Resume([m EXCEPT !.ready = Tail(@)], Head(m.ready)))
    ELSE LET pending == {n \in DOMAIN m.calls : m.frames[m.calls[n].path].st = "await"}
         IN  IF pending = {} THEN m
             ELSE LET n == CHOOSE n \in pending : \A k \in pending : n <= k
                      c == m.calls[n]
                  IN  ReferenceRun([m EXCEPT !.frames[c.path].st = "resolved",
                                             !.frames[c.path].val = TaskResult(c.name, c.args),
                                             !.ready = Append(@, c.path)])

Reference ==
    ReferenceRun(RunFrom([config |-> EmptyMap, frames |-> <<>>, ready |-> <<>>,
                          calls |-> <<>>, run_state |-> "new", output |-> <<>>,
                          same |-> raw_config.same], raw_config))

\* This run and the reference run agree: every dispatch made so far is made
\* with the same name and args by the reference run, and a returned output
\* is the output of the reference run.
AgreesWithReference ==
    LET ref == Reference IN
    /\ \A n \in DOMAIN calls :
           \E k \in DOMAIN ref.calls :
               /\ ref.calls[k].path = calls[n].path
               /\ ref.calls[k].name = calls[n].name
               /\ ref.calls[k].args = calls[n].args
    /\ run_state = "returned" => (ref.run_state = "returned" /\ output = ref.output)

\* C34: two runs of one document in which every task returns the same result
\* for the same args make every dispatch with the same args and return the
\* same output, whatever the order in which the dispatches of parallel
\* children complete: every such run agrees with the run under a fixed schedule.
C34_ScheduleDoesNotMatter ==
    (raw_config.valid /\ run_state # "new" /\ TasksAreFunctions /\ NothingFailed) =>
        AgreesWithReference

\* What holds of the code: the same, for a document with no repeated mapping.
ScheduleDoesNotMatterInTrees == NoMappingRepeats => C34_ScheduleDoesNotMatter

\* A parallel block of two sequential blocks has returned, the dispatches of
\* the second having completed before those of the first, with the output of
\* the reference run.
OutOfOrderRunAgrees ==
    /\ RunsExecution
    /\ NoMappingRepeats
    /\ TasksAreFunctions
    /\ run_state = "returned"
    /\ HasType(Orig(<<>>), "parallel")
    /\ Len(completions) = 4
    /\ completions[1] = <<2, 1>>
    /\ completions[2] = <<2, 2>>
    /\ output = Reference.output

----------------------------------------------------------------------------
(* C35 *)

\* The parallel block at q has two or more children, all named activity blocks.
ParallelOfActivities(q) ==
    /\ HasType(Orig(q), "parallel")
    /\ Len(Children(q)) >= 2
    /\ \A k \in 1..Len(Children(q)) : NamedActivity(Children(q)[k])

\* The task of the child at r has been created: it is queued or has started.
TaskCreated(r) == r \in DOMAIN frames \/ \E n \in DOMAIN ready : ready[n] = r

\* C35: the children of a parallel block run concurrently. Once the block is
\* evaluated, the task of every child exists, none waiting for a sibling to
\* complete; so the state in which every child is dispatched and none has
\* completed is reached, and the dispatches may complete in any order.
C35_ParallelChildrenStartTogether ==
    \A q \in Evaluated :
        HasType(Orig(q), "parallel") =>
            \A k \in 1..Len(Children(q)) : TaskCreated(Append(q, k))

\* Every child of a parallel block of three activities has been dispatched and
\* none has completed.
C35_Witness ==
    /\ RunsExecution
    /\ \E q \in Evaluated :
           /\ ParallelOfActivities(q)
           /\ Len(Children(q)) = 3
           /\ \A k \in 1..3 : HasCall(Append(q, k)) /\ frames[Append(q, k)].st = "await"
           /\ completions = <<>>

\* The dispatches of a parallel block of three activities have completed in the
\* order third, first, second, and the run has returned.
CompletedOutOfDocumentOrder ==
    /\ RunsExecution
    /\ ParallelOfActivities(<<>>)
    /\ completions = << <<3>>, <<1>>, <<2>> >>
    /\ run_state = "returned"

----------------------------------------------------------------------------
(* C36 *)

\* run has ended: it returned an output string or it failed.
RunEnded == run_state \in {"returned", "failed"}

\* C36: when every dispatched task eventually returns or fails, the run
\* eventually ends, with an output string or with a failure.
C36_RunEventuallyEnds == <>RunEnded

\* A run with a parallel block between sequential children has returned after
\* all its four dispatches returned.
C36_Witness ==
    /\ RunsExecution
    /\ run_state = "returned"
    /\ HasType(Orig(<<>>), "sequential")
    /\ Len(Children(<<>>)) = 3
    /\ HasType(Orig(<<2>>), "parallel")
    /\ Len(calls) = 4
    /\ Len(completions) = 4

----------------------------------------------------------------------------
(* C37 *)

\* The names of the activities dispatched so far, in the order of their first
\* attempts (the attempts of one dispatch follow one another).
RECURSIVE DispatchOrder(_)
DispatchOrder(log) ==
    IF log = <<>> THEN <<>>
    ELSE IF Len(log) > 1 /\ log[Len(log) - 1].name = Last(log).name
    THEN DispatchOrder(Front(log))
    ELSE Append(DispatchOrder(Front(log)), Last(log).name)

\* check_policy returns "approve" for an argument list the task description
\* may be delivered as.
PolicyApproves ==
    \E args \in Delivered(task_description) :
        check_policy(args).ok /\ check_policy(args).value = <<"approve">>

\* C37: the agent task is dispatched only after the policy check returned
\* "approve", the approval request completed and the approval wait ended with
\* the approval state True; a run that returns "COMPLETED: ..." has dispatched
\* policy check, approval request, agent task and cleanup, in that order.
C37_AgentTaskOnlyAfterApproval ==
    /\ Dispatched("ExecuteAgentTask") =>
           /\ PolicyApproves
           /\ wait_ended = "True"
           /\ sample_pc \in {"agent", "cleanup", "returned", "failed"}
           /\ SubSeq(DispatchOrder(attempts), 1, 3) =
                  <<"CheckPolicy", "RequestHumanApproval", "ExecuteAgentTask">>
    /\ (sample_pc = "returned" /\ Head(sample_result) = "COMPLETED: ") =>
           DispatchOrder(attempts) =
               <<"CheckPolicy", "RequestHumanApproval", "ExecuteAgentTask", "CleanupTask">>

\* A run has returned "COMPLETED: SUCCESS" after a second attempt of the policy
\* check and an approval that followed a rejection.
C37_Witness ==
    /\ sample_pc = "returned"
    /\ sample_result = <<"COMPLETED: ", "SUCCESS">>
    /\ AttemptsOf("CheckPolicy") = 2
    /\ signals = 2
    /\ wait_ended = "True"

----------------------------------------------------------------------------
(* C38 *)

\* The agent task has failed for good: its failure was raised in run.
AgentTaskFailed ==
    /\ sample_pc = "failed"
    /\ Dispatched("ExecuteAgentTask")
    /\ execution_result = None

\* The policy check has failed for good (a denial, or its attempts used up).
PolicyCheckFailed == sample_pc = "failed" /\ ~Dispatched("RequestHumanApproval")

\* C38: the cleanup task is dispatched only after the agent task succeeded;
\* after a policy denial, a rejection, a timeout of the approval wait or an
\* agent task that failed all its attempts it is never dispatched.
C38_CleanupOnlyAfterAgentSuccess ==
    /\ Dispatched("CleanupTask") =>
           /\ execution_result = Some(<<"SUCCESS">>)
           /\ wait_ended = "True"
           /\ Dispatched("ExecuteAgentTask")
    /\ (PolicyCheckFailed \/ wait_ended \in {"False", "timeout"} \/ AgentTaskFailed) =>
           ~Dispatched("CleanupTask")
    /\ sample_result = <<"TERMINATED_POLICY_DENIAL">> => ~Dispatched("CleanupTask")

\* The agent task has failed its three attempts and the run has failed.
C38_Witness ==
    /\ AgentTaskFailed
    /\ AttemptsOf("ExecuteAgentTask") = 3
    /\ ~Dispatched("CleanupTask")

----------------------------------------------------------------------------
(* C39 *)

\* A signal is delivered after run has passed the approval check with an
\* approval.
LateSignal == wait_ended = "True" /\ signals' = signals + 1

\* C39: a signal delivered after the approval check was passed with an
\* approval changes the stored approval state and nothing else of the run,
\* which, when it returns, returns "COMPLETED: " and the agent result. A signal
\* delivered before the wait is kept: the wait never times out after a signal,
\* and it ends by the decision stored at that moment.
C39_SignalsBeforeAndAfterTheWait ==
    [][ /\ LateSignal =>
               /\ human_approved' = Some(last_signal'[1].approved)
               /\ UNCHANGED <<sample_pc, attempts, sample_result, execution_result, wait_ended>>
        /\ (wait_ended' = "True" /\ sample_pc' = "returned") =>
               sample_result' = <<"COMPLETED: ">> \o Format(execution_result')
        /\ wait_ended' = "timeout" => signals' = 0
        /\ (wait_ended = "no" /\ wait_ended' = "True") => human_approved = Some(TRUE)
        /\ (wait_ended = "no" /\ wait_ended' = "False") => human_approved = Some(FALSE)
      ]_vars

\* A run that passed the approval check with an approval, and to which a
\* rejection was delivered after that, has returned "COMPLETED: SUCCESS" with
\* the stored approval state False.
C39_Witness ==
    /\ sample_pc = "returned"
    /\ sample_result = <<"COMPLETED: ", "SUCCESS">>
    /\ human_approved = Some(FALSE)
    /\ signals = 2
    /\ wait_ended = "True"

\* No decision is stored when the approval request completes. This is violated:
\* signals do arrive before the wait.
NoSignalBeforeTheWait ==
    [][(sample_pc = "request" /\ sample_pc' # "request") => human_approved = None]_vars

====
